---- MODULE Spec2Model ----
(***************************************************************************)
(* Verification model of RAG_TEAM (src/rag_mlsys).                         *)
(*                                                                         *)
(*   SpecBP         background_processor.py: BackgroundProcessor, its      *)
(*                  worker threads and the persisted task status files     *)
(*   SpecBPRestart  SpecBP with restarts of the process, which reload the  *)
(*                  task status files                                      *)
(*   SpecGen        quiz_module/question_generator.py:                     *)
(*                  generate_quiz_questions and its _generate_batch loop   *)
(*   SpecSchedule   the truth schedule of generate_quiz_questions alone,   *)
(*                  for larger numbers of boolean questions                *)
(*   SpecRag        rag_service.py: retrieve_with_enhancements             *)
(*   SpecQueries    generate_queries of rag_service.py and of              *)
(*                  module_rag_assistant.py                                *)
(*   SpecSelect     rag_service.py: smart_context_selection                *)
(*   SpecChunks     core_processing.py: post_process_chunks                *)
(*   SpecPdf        core_processing.py: process_single_pdf                 *)
(*   SpecGrade      quiz_module/evaluator.py: grade_quiz                   *)
(*   SpecKeys       learning_tracker.py: derive_concept_key, and its call  *)
(*                  from api_generate_quiz of main_app.py                  *)
(*   SpecHistory    learning_tracker.py: record_quiz_attempt               *)
(*   SpecIndex      core_indexing.py and main_app.py: the chunks that      *)
(*                  reach the vector store, and the pool                   *)
(*                  generate_quiz_questions samples from                   *)
(*   SpecClean      core_processing.py: clean_document_content, run once   *)
(*                  and again on what it returned                          *)
(*   SpecMerge      post_process_chunks on chunks that can be told apart   *)
(*   SpecClassify   core_processing.py: the page detectors and the page    *)
(*                  type clean_document_content writes                     *)
(*   SpecVersions   version_manager.py: the version registry               *)
(*   SpecStores     two record_quiz_attempt or two register_version calls  *)
(*                  at a time, on one file                                 *)
(***************************************************************************)
EXTENDS Integers, Sequences, FiniteSets, Bags, TLC

VARIABLES
    \* ---- background_processor.py ----
    clock,          \* int(time.time()), the clock second
    objs,           \* the ProcessingTask objects of this process, by creation order
    tasks,          \* BackgroundProcessor.tasks: insertion-ordered dict task_id -> object
    files,          \* task_status/<task_id>.json
    worker_thread,  \* the thread BackgroundProcessor.worker_thread names (NoThread is None)
    workers,        \* the other live threads running _worker, as a bag of thread states
    callers,        \* where each thread calling submit_pdf_task is in submit_task
    submitted,      \* number of submit_pdf_task calls made
    restarts,       \* number of process restarts
    \* ---- quiz_module/question_generator.py ----
    gpc,            \* where generate_quiz_questions is
    all_docs,       \* whether the valid pool (all_docs) has a chunk
    num_choice,     \* generate_quiz_questions(num_choice=...)
    num_boolean,    \* generate_quiz_questions(num_boolean=...)
    truth_schedule, \* the shuffled truth schedule, <<>> before it is made
    q_type,         \* _generate_batch(q_type=...)
    target_count,   \* _generate_batch(target_count=...)
    batch_questions,\* _generate_batch: the questions accepted so far
    attempts,       \* _generate_batch: attempts
    response,       \* _generate_batch: what chat_completion answered last
    correct_opt,    \* the option text at the parsed index of the question
                    \* accepted last, before any shuffle
    choice_qs,      \* what the choice batch returned
    questions,      \* what generate_quiz_questions returns
    \* ---- rag_service.py ----
    rpc,            \* where retrieve_with_enhancements (or the function called
                    \* alone) is
    query,          \* the query text
    num_queries,    \* generate_queries(num_queries=...)
    k,              \* retrieve_with_enhancements(k=...), max_docs of the selection
    queries,        \* the query variants
    qi,             \* number of variants retrieved for so far
    docs,           \* what EnsembleRetriever.retrieve returned last
    pool,           \* retrieve_with_enhancements: all_docs, the pool
    seen_content,   \* retrieve_with_enhancements: seen_content
    final_docs,     \* what smart_context_selection returned
    \* ---- core_processing.py ----
    cpc,            \* where process_single_pdf (or post_process_chunks called
                    \* alone) is
    documents,      \* process_single_pdf: the pages the loader returned
    all_chunks,     \* split_text_into_chunks: all_chunks, what the splitter
                    \* returned and post_process_chunks is called with
    processed_chunks, \* what post_process_chunks or process_single_pdf returned
    \* ---- quiz_module/evaluator.py ----
    epc,            \* where grade_quiz is
    quiz_questions, \* grade_quiz(questions=...)
    user_answers_list, \* grade_quiz(user_answers_list=...)
    user_answers_map, \* grade_quiz: user_answers_map, as the list of the
                    \* indices resolved for questions 0, 1, ...
    report,         \* what grade_quiz returned or raised
    \* ---- learning_tracker.py ----
    kpc,            \* where the derivation of concept keys is
    instances,      \* the question instances keys are derived for
    concept_keys,   \* the concept_key of each instance
    history_file,   \* analytics/quiz_history.json: the stored list of entries
    attempt_count,  \* number of attempts recorded so far; the attempt_id of
                    \* an entry is its number in the order of recording
    entry,          \* what record_quiz_attempt returned last
    writers,        \* the threads inside record_quiz_attempt or
                    \* register_version: where each is and what it loaded
    save_log,       \* the loads, opens and writes of the threads, in order
    store_len,      \* the length of the text in the file the threads write
    store_torn,     \* whether that file holds the texts of two saves, one
                    \* written over the start of the other
    \* ---- the vector store and the generator's pool ----
    ipc,            \* where ingestion and generate_quiz_questions are
    vector_store,   \* the chunks in the vector store
    valid_docs,     \* generate_quiz_questions: all_docs after lines 291-299
    sampled,        \* the chunks random.choice(all_docs) returned so far
    \* ---- version_manager.py ----
    versions_file,  \* vector_db/version_history.json: the stored list
    version_count,  \* number of versions registered so far; the version_id
                    \* of an entry is its number in the order of registering
    vop             \* the call made last and its arguments

bpVars == <<clock, objs, tasks, files, worker_thread, workers, callers,
            submitted, restarts>>

genVars == <<gpc, all_docs, num_choice, num_boolean, truth_schedule, q_type,
             target_count, batch_questions, attempts, response, correct_opt,
             choice_qs, questions>>

ragVars == <<rpc, query, num_queries, k, queries, qi, docs, pool,
             seen_content, final_docs>>

coreVars == <<cpc, documents, all_chunks, processed_chunks>>

evalVars == <<epc, quiz_questions, user_answers_list, user_answers_map,
              report>>

keyVars == <<kpc, instances, concept_keys>>

histVars == <<history_file, attempt_count, entry>>

wrVars == <<writers, save_log, store_len, store_torn>>

idxVars == <<ipc, vector_store, valid_docs, sampled>>

verVars == <<versions_file, version_count, vop>>

lateVars == <<wrVars, idxVars, verVars>>

vars == <<bpVars, genVars, ragVars, coreVars, evalVars, keyVars, histVars,
          lateVars>>

\* what the steps of the background processor leave alone
notBP == <<genVars, ragVars, coreVars, evalVars, keyVars, histVars, lateVars>>

\* what the steps of the question generator leave alone
notGen == <<bpVars, ragVars, coreVars, evalVars, keyVars, histVars, lateVars>>

\* what the steps of the retrieval service leave alone
notRag == <<bpVars, genVars, coreVars, evalVars, keyVars, histVars, lateVars>>

\* what the steps of the PDF processing leave alone
notCore == <<bpVars, genVars, ragVars, evalVars, keyVars, histVars, lateVars>>

\* what the steps of the grader leave alone
notEval == <<bpVars, genVars, ragVars, coreVars, keyVars, histVars, lateVars>>

\* what the derivation of concept keys leaves alone
notKey == <<bpVars, genVars, ragVars, coreVars, evalVars, histVars, lateVars>>

\* what record_quiz_attempt leaves alone
notHist == <<bpVars, genVars, ragVars, coreVars, evalVars, keyVars,
            lateVars>>

\* the retrieval service not in use
RagIdle ==
    /\ rpc = "off"
    /\ query = <<>>
    /\ num_queries = 0
    /\ k = 0
    /\ queries = <<>>
    /\ qi = 0
    /\ docs = <<>>
    /\ pool = <<>>
    /\ seen_content = {}
    /\ final_docs = <<>>

\* the PDF processing not in use
CoreIdle ==
    /\ cpc = "off"
    /\ documents = <<>>
    /\ all_chunks = <<>>
    /\ processed_chunks = <<>>

\* no report: grade_quiz has not returned
NoReport ==
    [raised |-> "none", total |-> 0, correct |-> 0, wrong |-> 0,
     unanswered |-> 0, results |-> <<>>]

\* the grader not in use
EvalIdle ==
    /\ epc = "off"
    /\ quiz_questions = <<>>
    /\ user_answers_list = <<>>
    /\ user_answers_map = <<>>
    /\ report = NoReport

\* no concept key is being derived
KeyIdle ==
    /\ kpc = "off"
    /\ instances = <<>>
    /\ concept_keys = <<>>

\* no entry: record_quiz_attempt has not returned
NoEntry == [attempt_id |-> 0, timestamp |-> 0]

\* no quiz history
HistIdle ==
    /\ history_file = <<>>
    /\ attempt_count = 0
    /\ entry = NoEntry

\* no thread inside record_quiz_attempt or register_version
WritersIdle ==
    /\ writers = <<>>
    /\ save_log = <<>>
    /\ store_len = 0
    /\ store_torn = FALSE

\* no chunk ingested, generate_quiz_questions not called
IndexIdle ==
    /\ ipc = "off"
    /\ vector_store = <<>>
    /\ valid_docs = <<>>
    /\ sampled = {}

\* no call made
NoCall == [op |-> "none", version_id |-> 0, session_id |-> "none",
           db_path |-> "none", now |-> 0]

\* no version registry
VersionIdle ==
    /\ versions_file = <<>>
    /\ version_count = 0
    /\ vop = NoCall

LateIdle == WritersIdle /\ IndexIdle /\ VersionIdle

\* the question generator not in use
GenOff ==
    /\ gpc = "off"
    /\ all_docs = FALSE
    /\ num_choice = 0
    /\ num_boolean = 0
    /\ truth_schedule = <<>>
    /\ q_type = "none"
    /\ target_count = 0
    /\ batch_questions = <<>>
    /\ attempts = 0
    /\ response = [kind |-> "none"]
    /\ correct_opt = "none"
    /\ choice_qs = <<>>
    /\ questions = <<>>

\* the parts of the program other than the background processor and the
\* question generator not in use
OtherIdle ==
    RagIdle /\ CoreIdle /\ EvalIdle /\ KeyIdle /\ HistIdle /\ LateIdle

----------------------------------------------------------------------------
(* Bounds *)

MaxSubmits == 2
MaxClock == 1
MaxRestarts == 1
MaxQuestions == 2
MaxScheduled == 8

Sessions == {"s1", "s2"}
Callers == {"t1", "t2"}

----------------------------------------------------------------------------
(* background_processor.py *)

PENDING == "pending"
PROCESSING == "processing"
COMPLETED == "completed"
FAILED == "failed"

\* submit_pdf_task: task_id = f"task_{session_id}_{int(time.time())}"
TaskId(session_id, now) == <<session_id, now>>

TaskIds == Sessions \X (0..MaxClock)

\* ProcessingTask.__init__ (message follows status and progress and is left
\* out; chunk_count is 0 or, standing for any positive count, 1)
ProcessingTask(task_id) ==
    [task_id |-> task_id, status |-> PENDING, progress |-> 0, error |-> FALSE,
     db_path |-> FALSE, chunk_count |-> 0, start_time |-> FALSE,
     end_time |-> FALSE]

NoRecord == [status |-> "none"]

\* ProcessingTask.to_dict
to_dict(task) == task

\* dict lookups on BackgroundProcessor.tasks
TaskKeys == {tasks[i].id : i \in DOMAIN tasks}

TaskAt(task_id) ==
    LET i == CHOOSE i \in DOMAIN tasks : tasks[i].id = task_id IN tasks[i].obj

\* self.tasks[task.task_id] = task: a new key goes last, an existing key keeps
\* its place and gets the new object
DictSet(d, task_id, obj) ==
    IF \E i \in DOMAIN d : d[i].id = task_id
    THEN [i \in DOMAIN d |->
            IF d[i].id = task_id THEN [id |-> task_id, obj |-> obj] ELSE d[i]]
    ELSE Append(d, [id |-> task_id, obj |-> obj])

\* _save_task_status: the file of task.task_id gets the task's current fields
SavedFiles(f, task) == [f EXCEPT ![task.task_id] = to_dict(task)]

\* _load_task_status: None when the file is missing; start_time and end_time
\* are not read back
_load_task_status(task_id) ==
    IF files[task_id] = NoRecord
    THEN NoRecord
    ELSE [ProcessingTask(task_id) EXCEPT
            !.status = files[task_id].status,
            !.progress = files[task_id].progress,
            !.error = files[task_id].error,
            !.db_path = files[task_id].db_path,
            !.chunk_count = files[task_id].chunk_count]

\* get_task_status
get_task_status(task_id) ==
    IF task_id \in TaskKeys THEN objs[TaskAt(task_id)]
    ELSE _load_task_status(task_id)

\* A thread running _worker: its place in the code, the task it holds, and the
\* position and the dict size of its iteration over self.tasks.values()
NoThread == [pc |-> "none", task |-> 0, idx |-> 0, used |-> 0]
NewWorker == [pc |-> "loop", task |-> 0, idx |-> 0, used |-> 0]
DeadWorker == [pc |-> "dead", task |-> 0, idx |-> 0, used |-> 0]

\* Thread.is_alive()
is_alive(w) == w.pc # "dead"

\* every live thread running _worker
LiveWorkers ==
    BagToSet(workers)
        \cup (IF worker_thread # NoThread /\ is_alive(worker_thread)
              THEN {worker_thread} ELSE {})

\* how many threads are in state w
Copies(w) == CopiesIn(w, workers) + (IF worker_thread = w THEN 1 ELSE 0)

\* thread w, the one worker_thread names when cur, goes to state new; a dead
\* thread that worker_thread does not name is forgotten
Become(w, cur, new) ==
    IF cur
    THEN /\ worker_thread = w
         /\ worker_thread' = new
         /\ UNCHANGED workers
    ELSE /\ BagIn(w, workers)
         /\ workers' = (workers (-) SetToBag({w}))
                        (+) (IF is_alive(new) THEN SetToBag({new}) ELSE EmptyBag)
         /\ UNCHANGED worker_thread

\* BackgroundProcessor.__init__
InitBPVars ==
    /\ clock = 0
    /\ objs = <<>>
    /\ tasks = <<>>
    /\ files = [t \in TaskIds |-> NoRecord]
    /\ worker_thread = NoThread
    /\ workers = EmptyBag
    /\ callers = [c \in Callers |-> "idle"]
    /\ submitted = 0
    /\ restarts = 0

\* the background processor before its first call, the generator not in use
InitBP ==
    /\ InitBPVars
    /\ GenOff
    /\ OtherIdle

\* time passes
Tick ==
    /\ clock < MaxClock
    /\ clock' = clock + 1
    /\ UNCHANGED <<objs, tasks, files, worker_thread, workers, callers,
                   submitted, restarts, notBP>>

\* submit_pdf_task and submit_task lines 82-83: the task is created, stored
\* and saved. (Of two idle callers the first one calls: the callers are
\* interchangeable.)
SubmitStore(c) ==
    /\ callers[c] = "idle"
    /\ c = "t2" => callers["t1"] # "idle"
    /\ submitted < MaxSubmits
    /\ \E session_id \in Sessions :
         LET task == ProcessingTask(TaskId(session_id, clock))
         IN /\ objs' = Append(objs, task)
            /\ tasks' = DictSet(tasks, task.task_id, Len(objs) + 1)
            /\ files' = SavedFiles(files, task)
    /\ callers' = [callers EXCEPT ![c] = "check"]
    /\ submitted' = submitted + 1
    /\ UNCHANGED <<clock, worker_thread, workers, restarts, notBP>>

\* submit_task line 86: the test of worker_thread
SubmitCheck(c) ==
    /\ callers[c] = "check"
    /\ IF worker_thread = NoThread \/ ~is_alive(worker_thread)
       THEN callers' = [callers EXCEPT ![c] = "start"]
       ELSE callers' = [callers EXCEPT ![c] = "idle"]
    /\ UNCHANGED <<clock, objs, tasks, files, worker_thread, workers,
                   submitted, restarts, notBP>>

\* submit_task lines 87-88: a new worker thread is created, assigned to
\* worker_thread and started; the thread worker_thread named runs on if alive
SubmitStart(c) ==
    /\ callers[c] = "start"
    /\ workers' = workers (+) (IF worker_thread # NoThread /\ is_alive(worker_thread)
                               THEN SetToBag({worker_thread}) ELSE EmptyBag)
    /\ worker_thread' = NewWorker
    /\ callers' = [callers EXCEPT ![c] = "idle"]
    /\ UNCHANGED <<clock, objs, tasks, files, submitted, restarts, notBP>>

\* the object a worker holds, with fields changed
SetTask(o, upd) == [objs EXCEPT ![o] = upd]

\* the step of the iteration over self.tasks.values() at position idx: the
\* first pending task is taken, and an exhausted iteration sleeps and loops
IterStep(w, idx) ==
    IF idx > Len(tasks) THEN NewWorker
    ELSE IF objs[tasks[idx].obj].status = PENDING
    THEN [NewWorker EXCEPT !.pc = "p_begin", !.task = tasks[idx].obj]
    ELSE [w EXCEPT !.pc = "next", !.idx = idx + 1, !.used = Len(tasks)]

\* _worker lines 102-116, from the top of the loop: the iteration begins and
\* looks at the first task
WorkerIter(w, cur) ==
    /\ w.pc = "loop"
    /\ Become(w, cur, IterStep(w, 1))
    /\ UNCHANGED <<clock, objs, tasks, files, callers, submitted, restarts, notBP>>

\* _worker lines 105-116: a later step of the iteration. A dict whose size
\* changed since the iteration began raises RuntimeError, which ends the
\* thread.
WorkerNext(w, cur) ==
    /\ w.pc = "next"
    /\ Become(w, cur, IF Len(tasks) # w.used THEN DeadWorker
                      ELSE IterStep(w, w.idx))
    /\ UNCHANGED <<clock, objs, tasks, files, callers, submitted, restarts, notBP>>

\* _process_task lines 121-130: status, start_time and progress 5 are saved,
\* then progress 10
ProcessBegin(w, cur) ==
    /\ w.pc = "p_begin"
    /\ LET t == [objs[w.task] EXCEPT !.status = PROCESSING,
                                     !.start_time = TRUE, !.progress = 10]
       IN /\ objs' = SetTask(w.task, t)
          /\ files' = SavedFiles(files, t)
    /\ Become(w, cur, [w EXCEPT !.pc = "p_pdf"])
    /\ UNCHANGED <<clock, tasks, callers, submitted, restarts, notBP>>

\* _process_task lines 132-145: process_single_pdf returns chunks or none (also
\* when the document fails to load); none raises, otherwise chunk_count and
\* progress 50 are saved, then progress 60
ProcessPdf(w, cur) ==
    /\ w.pc = "p_pdf"
    /\ \E chunks \in BOOLEAN :
         IF ~chunks
         THEN /\ Become(w, cur, [w EXCEPT !.pc = "p_except"])
              /\ UNCHANGED <<objs, files, notBP>>
         ELSE LET t == [objs[w.task] EXCEPT !.chunk_count = 1, !.progress = 60]
              IN /\ objs' = SetTask(w.task, t)
                 /\ files' = SavedFiles(files, t)
                 /\ Become(w, cur, [w EXCEPT !.pc = "p_build"])
    /\ UNCHANGED <<clock, tasks, callers, submitted, restarts, notBP>>

\* _process_task lines 150-170: the embedding model is loaded and
\* build_session_vector_db runs; either may raise. On success db_path,
\* progress and status are assigned.
ProcessBuild(w, cur) ==
    /\ w.pc = "p_build"
    /\ \E ok \in BOOLEAN :
         IF ok
         THEN /\ objs' = SetTask(w.task,
                    [objs[w.task] EXCEPT !.db_path = TRUE, !.progress = 100,
                                         !.status = COMPLETED])
              /\ Become(w, cur, [w EXCEPT !.pc = "p_done"])
         ELSE /\ Become(w, cur, [w EXCEPT !.pc = "p_except"])
              /\ UNCHANGED objs
    /\ UNCHANGED <<clock, tasks, files, callers, submitted, restarts, notBP>>

\* _process_task lines 171-173
ProcessDone(w, cur) ==
    /\ w.pc = "p_done"
    /\ LET t == [objs[w.task] EXCEPT !.end_time = TRUE]
       IN /\ objs' = SetTask(w.task, t)
          /\ files' = SavedFiles(files, t)
    /\ Become(w, cur, NewWorker)
    /\ UNCHANGED <<clock, tasks, callers, submitted, restarts, notBP>>

\* _process_task line 178
ProcessExcept(w, cur) ==
    /\ w.pc = "p_except"
    /\ objs' = SetTask(w.task, [objs[w.task] EXCEPT !.status = FAILED])
    /\ Become(w, cur, [w EXCEPT !.pc = "p_failed"])
    /\ UNCHANGED <<clock, tasks, files, callers, submitted, restarts, notBP>>

\* _process_task lines 179-182
ProcessFailed(w, cur) ==
    /\ w.pc = "p_failed"
    /\ LET t == [objs[w.task] EXCEPT !.error = TRUE, !.end_time = TRUE]
       IN /\ objs' = SetTask(w.task, t)
          /\ files' = SavedFiles(files, t)
    /\ Become(w, cur, NewWorker)
    /\ UNCHANGED <<clock, tasks, callers, submitted, restarts, notBP>>

\* the threads running _worker: the one worker_thread names and the others
Threads ==
    {[t |-> worker_thread, cur |-> TRUE]}
        \cup {[t |-> w, cur |-> FALSE] : w \in BagToSet(workers)}

\* the process is restarted: BackgroundProcessor.__init__ runs again, the
\* threads and the objects are gone, the status files stay
Restart ==
    /\ restarts < MaxRestarts
    /\ restarts' = restarts + 1
    /\ objs' = <<>>
    /\ tasks' = <<>>
    /\ worker_thread' = NoThread
    /\ workers' = EmptyBag
    /\ callers' = [c \in Callers |-> "idle"]
    /\ UNCHANGED <<clock, files, submitted, notBP>>

NextBP ==
    \/ Tick
    \/ \E c \in Callers : SubmitStore(c)
    \/ \E c \in Callers : SubmitCheck(c)
    \/ \E c \in Callers : SubmitStart(c)
    \/ \E w \in Threads : WorkerIter(w.t, w.cur)
    \/ \E w \in Threads : WorkerNext(w.t, w.cur)
    \/ \E w \in Threads : ProcessBegin(w.t, w.cur)
    \/ \E w \in Threads : ProcessPdf(w.t, w.cur)
    \/ \E w \in Threads : ProcessBuild(w.t, w.cur)
    \/ \E w \in Threads : ProcessDone(w.t, w.cur)
    \/ \E w \in Threads : ProcessExcept(w.t, w.cur)
    \/ \E w \in Threads : ProcessFailed(w.t, w.cur)

\* one process lifetime
SpecBP == InitBP /\ [][NextBP]_vars

\* with restarts of the process
NextBPRestart ==
    \/ NextBP
    \/ Restart

SpecBPRestart == InitBP /\ [][NextBPRestart]_vars

----------------------------------------------------------------------------
(* background_processor.py: the claims *)

\* the places of a thread inside _process_task
InProcess == {"p_pdf", "p_build", "p_done", "p_except", "p_failed"}

Terminal == {COMPLETED, FAILED}

\* C1: at most one build is in progress at a time: at most one task has status
\* 'processing' and at most one thread is executing _process_task, whatever
\* the interleaving of submit_task calls and worker steps.
C1_AtMostOneBuild ==
    /\ Cardinality({o \in DOMAIN objs : objs[o].status = PROCESSING}) <= 1
    /\ LET S == {w \in LiveWorkers : w.pc \in InProcess}
       IN Cardinality(S) <= 1 /\ \A w \in S : Copies(w) = 1

\* C2: submissions are queued, not dropped: a submitted task that is still
\* pending is in the pending set (the tasks map) or has just been taken by a
\* worker, also when it was submitted for the same session in the same clock
\* second as another.
C2_PendingStaysQueued ==
    \A o \in DOMAIN objs :
        objs[o].status = PENDING =>
            \/ \E i \in DOMAIN tasks : tasks[i].obj = o
            \/ \E w \in LiveWorkers : w.pc = "p_begin" /\ w.task = o

\* C3: the status record seen for a task id advances monotonically: its
\* status only moves pending -> processing -> completed | failed, a terminal
\* status never changes, and its progress never decreases.
C3_StatusMonotonic ==
    [][\A id \in TaskIds :
          LET a == get_task_status(id)
              b == get_task_status(id)'
          IN a # NoRecord =>
                /\ b # NoRecord
                /\ \/ b.status = a.status
                   \/ a.status = PENDING /\ b.status = PROCESSING
                   \/ a.status = PROCESSING /\ b.status \in Terminal
                /\ b.progress >= a.progress]_vars

\* C4: once a task has reached 'completed' or 'failed' (and _process_task has
\* saved that status), every later get_task_status of its id returns a
\* record carrying that same terminal status, from the in-memory map or, the
\* map lost on restart, from the status file.
C4_TerminalStatusKept ==
    [][\A id \in TaskIds :
          LET a == get_task_status(id)
              b == get_task_status(id)'
          IN (a.status \in Terminal /\ files[id].status = a.status)
                => b.status = a.status]_vars

\* C19: a task whose document yielded zero chunks ends 'failed' with the
\* error recorded, and the other tasks are not affected: each one still
\* pending is still there for the worker to process, as it would be had the
\* failing task not been submitted.
C19_ZeroChunksIsolated ==
    \A f \in DOMAIN objs :
        (objs[f].status = FAILED /\ objs[f].chunk_count = 0) =>
            /\ \/ objs[f].error /\ objs[f].end_time
               \/ \E w \in LiveWorkers : w.pc = "p_failed" /\ w.task = f
            /\ objs[f].error =>
                  \A o \in DOMAIN objs \ {f} :
                      objs[o].status = PENDING =>
                          \/ \E i \in DOMAIN tasks : tasks[i].obj = o
                          \/ \E w \in LiveWorkers :
                                 w.pc = "p_begin" /\ w.task = o

\* C27: pending builds are taken in submission order: of two tasks, the one
\* submitted later has not entered 'processing' (its status is still
\* 'pending') as long as the one submitted earlier has not.
C27_SubmissionOrder ==
    \A a \in DOMAIN objs : \A b \in DOMAIN objs :
        (a < b /\ objs[b].status # PENDING) => objs[a].status # PENDING

\* the threads that have called _process_task on task o and not returned
Running(o) ==
    {w \in LiveWorkers : w.task = o /\ w.pc \in {"p_begin"} \cup InProcess}

\* C28: each task is built at most once: _process_task is called on a task
\* by at most one thread, and only while the task is still 'pending', so no
\* task enters 'processing' a second time.
C28_BuiltAtMostOnce ==
    \A o \in DOMAIN objs :
        /\ Cardinality(Running(o)) <= 1
        /\ \A w \in Running(o) :
              /\ Copies(w) = 1
              /\ w.pc = "p_begin" => objs[o].status = PENDING

\* C29: every task record is consistent in every reachable state: completed
\* with progress 100, chunks, a db_path, no error and an end_time; failed with
\* an error, an end_time and progress below 100; pending with progress 0 and
\* no start_time.
C29_RecordsConsistent ==
    \A o \in DOMAIN objs :
        LET task == objs[o]
        IN /\ task.status = COMPLETED =>
                 /\ task.progress = 100
                 /\ task.chunk_count > 0
                 /\ task.db_path
                 /\ ~task.error
                 /\ task.end_time
           /\ task.status = FAILED =>
                 /\ task.error
                 /\ task.end_time
                 /\ task.progress < 100
           /\ task.status = PENDING =>
                 /\ task.progress = 0
                 /\ ~task.start_time

----------------------------------------------------------------------------
(* quiz_module/question_generator.py *)

\* no truth value
None == "None"

\* the option pair the prompt asks of a boolean question (["正确", "错误"])
BooleanOptions == <<"correct", "wrong">>

\* An answer of the generation service. chat_completion raises, or returns
\* text with no JSON in it, or a JSON object: its "valid" flag, its stem (the
\* length and whether a blacklisted term is in it), its "type" (which may be
\* missing), its options as written and its correct_answer_index (which may
\* be no integer, is_int FALSE, or negative or past the end).
Json(valid, question, type, options, is_int, idx) ==
    [kind |-> "json", valid |-> valid, question |-> question, type |-> type,
     options |-> options, is_int |-> is_int, correct_answer_index |-> idx]

NoAnswer(kind) ==
    [Json(FALSE, [len |-> 0, banned |-> FALSE], "missing", <<>>, FALSE, 0)
        EXCEPT !.kind = kind]

GoodStem == [len |-> 8, banned |-> FALSE]
ShortStem == [len |-> 7, banned |-> FALSE]
BannedStem == [len |-> 8, banned |-> TRUE]

FourOptions == <<"A. a", "a", "a", "b">>
DigitOptions == <<"1", "2", "3", "a">>

\* the answers tried: one of each way to fail, and the answers accepted
Responses ==
    { NoAnswer("raise"), NoAnswer("text"),
      Json(FALSE, GoodStem, "choice", FourOptions, TRUE, 0),
      Json(TRUE, ShortStem, "choice", FourOptions, TRUE, 0),
      Json(TRUE, BannedStem, "choice", FourOptions, TRUE, 0),
      Json(TRUE, GoodStem, "choice", <<"a">>, TRUE, 0),
      Json(TRUE, GoodStem, "choice", FourOptions, FALSE, 0),
      Json(TRUE, GoodStem, "choice", FourOptions, TRUE, -1),
      Json(TRUE, GoodStem, "choice", FourOptions, TRUE, 4),
      Json(TRUE, GoodStem, "choice", DigitOptions, TRUE, 0),
      Json(TRUE, GoodStem, "boolean", DigitOptions, TRUE, 0),
      Json(TRUE, GoodStem, "choice", FourOptions, TRUE, 0),
      Json(TRUE, GoodStem, "choice", FourOptions, TRUE, 3) }
        \cup { Json(TRUE, GoodStem, type, BooleanOptions, TRUE, idx) :
                  type \in {"missing", "choice", "boolean"}, idx \in {0, 1} }

\* _parse_llm_json_output returning None
NoQuestion ==
    [question |-> [len |-> 0, banned |-> FALSE], type |-> "none",
     options |-> <<>>, correct_answer_index |-> -1]

\* _parse_llm_json_output._clean_opt: the text without a leading "A." label
_clean_opt(opt) == IF opt = "A. a" THEN "a" ELSE opt

\* _parse_llm_json_output
_parse_llm_json_output(resp) ==
    IF resp.kind # "json" THEN NoQuestion
    ELSE IF ~resp.valid THEN NoQuestion
    ELSE IF Len(resp.options) < 2 THEN NoQuestion
    ELSE IF ~resp.is_int
            \/ resp.correct_answer_index \notin 0..(Len(resp.options) - 1)
    THEN NoQuestion
    ELSE [question |-> resp.question,
          type |-> IF resp.type = "missing" THEN "choice" ELSE resp.type,
          options |-> [i \in DOMAIN resp.options |-> _clean_opt(resp.options[i])],
          correct_answer_index |-> resp.correct_answer_index]

\* re.match(r"^[\d\.\%]+$", ...)
IsDigits(opt) == opt \in {"1", "2", "3"}

\* a faulty variant of _validate_question_quality: the stem length is not tested
_validate_without_length(question) ==
    IF question.question.banned THEN FALSE
    ELSE IF question.type = "choice" /\ Len(question.options) < 2 THEN FALSE
    ELSE IF question.type = "choice"
            /\ Cardinality({i \in DOMAIN question.options :
                               IsDigits(question.options[i])}) >= 3
    THEN FALSE
    ELSE TRUE

\* _validate_question_quality
_validate_question_quality(question) ==
    IF question.question.len < 8 THEN FALSE
    ELSE IF question.question.banned THEN FALSE
    ELSE IF question.type = "choice" /\ Len(question.options) < 2 THEN FALSE
    ELSE IF question.type = "choice"
            /\ Cardinality({i \in DOMAIN question.options :
                               IsDigits(question.options[i])}) >= 3
    THEN FALSE
    ELSE TRUE

\* _generate_batch line 317
max_total_attempts(target) == target * 6

\* _generate_batch lines 325-328
TargetTruth ==
    IF q_type = "boolean" /\ truth_schedule # <<>>
       /\ Len(batch_questions) < Len(truth_schedule)
    THEN truth_schedule[Len(batch_questions) + 1]
    ELSE None

\* _generate_batch line 349
expected_idx(target_truth) == IF target_truth = "true" THEN 0 ELSE 1

\* how often x is in list
Count(list, x) == Cardinality({i \in DOMAIN list : list[i] = x})

\* random.shuffle(list): the lists it may leave, every order of the same items
Shuffles(list) ==
    {s \in [DOMAIN list -> {list[i] : i \in DOMAIN list}] :
        \A i \in DOMAIN list : Count(s, list[i]) = Count(list, list[i])}

\* list.index: the 0-based position of the first x
Index(opts, x) ==
    (CHOOSE i \in DOMAIN opts : opts[i] = x /\ \A j \in 1..(i - 1) : opts[j] # x) - 1

\* a faulty variant of Relocated: the options are shuffled and the index is kept
RelocatedKeepIndex(q, opts) == [q EXCEPT !.options = opts]

\* _generate_batch lines 364-368: q with the shuffled options and the index
\* of the first option equal to the text that was correct
Relocated(q, opts) ==
    [q EXCEPT !.options = opts,
              !.correct_answer_index =
                  Index(opts, q.options[q.correct_answer_index + 1])]

\* a faulty variant of LoopCondition: one attempt too many
LoopConditionOff ==
    /\ Len(batch_questions) < target_count
    /\ attempts <= max_total_attempts(target_count)

\* _generate_batch line 319
LoopCondition ==
    /\ Len(batch_questions) < target_count
    /\ attempts < max_total_attempts(target_count)

\* a faulty variant of num_false_of: the extra item of an odd count goes to 'false'
num_false_ceil(n) == (n + 1) \div 2

\* generate_quiz_questions line 386
num_false_of(n) == IF n \div 2 > 1 THEN n \div 2 ELSE 1

\* generate_quiz_questions lines 386-388, before the shuffle
ScheduleOf(n) ==
    [i \in 1..n |-> IF i <= num_false_of(n) THEN "false" ELSE "true"]

GenIdle ==
    /\ truth_schedule = <<>>
    /\ q_type = "none"
    /\ target_count = 0
    /\ batch_questions = <<>>
    /\ attempts = 0
    /\ response = NoAnswer("none")
    /\ correct_opt = "none"
    /\ choice_qs = <<>>
    /\ questions = <<>>

\* a call of generate_quiz_questions
InitGen ==
    /\ InitBPVars
    /\ gpc = "start"
    /\ all_docs \in BOOLEAN
    /\ num_choice \in 0..MaxQuestions
    /\ num_boolean \in 0..(MaxQuestions - num_choice)
    /\ GenIdle
    /\ OtherIdle

\* _generate_batch is called: lines 315-317
Batch(type, target) ==
    /\ q_type' = type
    /\ target_count' = target
    /\ batch_questions' = <<>>
    /\ attempts' = 0
    /\ response' = NoAnswer("none")
    /\ correct_opt' = "none"

\* generate_quiz_questions lines 275-307: no valid chunk returns []
NoDocs ==
    /\ gpc = "start"
    /\ ~all_docs
    /\ gpc' = "done"
    /\ questions' = <<>>
    /\ UNCHANGED <<all_docs, num_choice, num_boolean, truth_schedule, q_type,
                   target_count, batch_questions, attempts, response,
                   correct_opt, choice_qs, notGen>>

\* generate_quiz_questions line 382: the choice batch, if any is asked for
StartChoice ==
    /\ gpc = "start"
    /\ all_docs
    /\ IF num_choice > 0
       THEN /\ gpc' = "loop_choice"
            /\ Batch("choice", num_choice)
       ELSE /\ gpc' = "schedule"
            /\ UNCHANGED <<q_type, target_count, batch_questions, attempts,
                           response, correct_opt>>
    /\ UNCHANGED <<all_docs, num_choice, num_boolean, truth_schedule,
                   choice_qs, questions, notGen>>

\* _generate_batch lines 319-378: one iteration of the loop, the generation
\* service answering resp and the shuffle of an accepted choice question
\* leaving opts
Attempt ==
    /\ gpc \in {"loop_choice", "loop_boolean"}
    /\ LoopCondition
    /\ attempts' = attempts + 1
    /\ \E resp \in Responses :
         LET target_truth == TargetTruth
             parsed == _parse_llm_json_output(resp)
         IN /\ response' = resp
            /\ IF resp.kind = "raise"
               THEN UNCHANGED <<batch_questions, correct_opt>>
               ELSE IF parsed = NoQuestion
               THEN UNCHANGED <<batch_questions, correct_opt>>
               ELSE IF /\ q_type = "boolean"
                       /\ target_truth # None
                       /\ parsed.correct_answer_index # expected_idx(target_truth)
               THEN UNCHANGED <<batch_questions, correct_opt>>
               ELSE IF ~_validate_question_quality(parsed)
               THEN UNCHANGED <<batch_questions, correct_opt>>
               ELSE /\ correct_opt' =
                           parsed.options[parsed.correct_answer_index + 1]
                    /\ IF parsed.type = "choice"
                       THEN \E opts \in Shuffles(parsed.options) :
                              batch_questions' =
                                  Append(batch_questions, Relocated(parsed, opts))
                       ELSE batch_questions' = Append(batch_questions, parsed)
    /\ UNCHANGED <<gpc, all_docs, num_choice, num_boolean, truth_schedule,
                   q_type, target_count, choice_qs, questions, notGen>>

\* _generate_batch line 380, the choice batch: the loop is left and the batch
\* returned
ReturnChoice ==
    /\ gpc = "loop_choice"
    /\ ~LoopCondition
    /\ choice_qs' = batch_questions
    /\ gpc' = "schedule"
    /\ UNCHANGED <<all_docs, num_choice, num_boolean, truth_schedule, q_type,
                   target_count, batch_questions, attempts, response,
                   correct_opt, questions, notGen>>

\* generate_quiz_questions lines 384-391: the truth schedule is made and
\* shuffled, and the boolean batch begins
StartBoolean ==
    /\ gpc = "schedule"
    /\ num_boolean > 0
    /\ truth_schedule' \in Shuffles(ScheduleOf(num_boolean))
    /\ gpc' = "loop_boolean"
    /\ Batch("boolean", num_boolean)
    /\ UNCHANGED <<all_docs, num_choice, num_boolean, choice_qs, questions,
                   notGen>>

\* generate_quiz_questions lines 384-400 with num_boolean = 0
NoBoolean ==
    /\ gpc = "schedule"
    /\ num_boolean = 0
    /\ questions' = choice_qs
    /\ gpc' = "done"
    /\ UNCHANGED <<all_docs, num_choice, num_boolean, truth_schedule, q_type,
                   target_count, batch_questions, attempts, response,
                   correct_opt, choice_qs, notGen>>

\* _generate_batch line 380, the boolean batch, and generate_quiz_questions
\* lines 393-400
ReturnBoolean ==
    /\ gpc = "loop_boolean"
    /\ ~LoopCondition
    /\ questions' = choice_qs \o batch_questions
    /\ gpc' = "done"
    /\ UNCHANGED <<all_docs, num_choice, num_boolean, truth_schedule, q_type,
                   target_count, batch_questions, attempts, response,
                   correct_opt, choice_qs, notGen>>

NextGen ==
    \/ NoDocs
    \/ StartChoice
    \/ Attempt
    \/ ReturnChoice
    \/ StartBoolean
    \/ NoBoolean
    \/ ReturnBoolean

SpecGen == InitGen /\ [][NextGen]_vars

\* generate_quiz_questions at line 384, for any num_boolean > 0
InitSchedule ==
    /\ InitBPVars
    /\ gpc = "schedule"
    /\ all_docs = TRUE
    /\ num_choice = 0
    /\ num_boolean \in 1..MaxScheduled
    /\ GenIdle
    /\ OtherIdle

NextSchedule == StartBoolean

SpecSchedule == InitSchedule /\ [][NextSchedule]_vars

----------------------------------------------------------------------------
(* quiz_module/question_generator.py: the claims *)

InLoop == gpc \in {"loop_choice", "loop_boolean"}

\* _generate_batch has returned
Returned == gpc \in {"schedule", "done"} /\ q_type # "none"

Last(list) == list[Len(list)]

\* C5: the loop for one question type makes at most target_count x 6
\* attempts, goes on exactly while fewer than target_count questions are
\* accepted and the budget is not used up, and returns what was accepted,
\* never more than target_count, also when the quota is unmet.
C5_AttemptBudget ==
    /\ attempts <= target_count * 6
    /\ Len(batch_questions) <= target_count
    /\ InLoop =>
          (ENABLED Attempt <=>
              (Len(batch_questions) < target_count /\ attempts < target_count * 6))
    /\ Returned =>
          (Len(batch_questions) = target_count \/ attempts = target_count * 6)
    /\ gpc = "schedule" /\ q_type = "choice" => choice_qs = batch_questions
    /\ gpc = "done" /\ all_docs =>
          /\ questions = choice_qs \o (IF q_type = "boolean"
                                       THEN batch_questions ELSE <<>>)
          /\ Len(questions) <= num_choice + num_boolean

\* a batch returned short of its quota after its last attempt
C5_Witness ==
    /\ gpc = "done"
    /\ q_type = "boolean"
    /\ target_count = 2
    /\ attempts = 12
    /\ Len(questions) = 1

\* the answers that make an attempt fail: the service raised, the answer has
\* no JSON object, too few options or no index into them, it is flagged
\* valid = false, its stem is short or blacklisted or three of the options of
\* a choice answer are numbers, or its index is not the scheduled truth
FailedAnswer(resp, truth) ==
    \/ resp.kind \in {"raise", "text"}
    \/ ~resp.valid
    \/ Len(resp.options) < 2
    \/ ~resp.is_int
    \/ resp.correct_answer_index < 0
    \/ resp.correct_answer_index >= Len(resp.options)
    \/ resp.question.len < 8
    \/ resp.question.banned
    \/ resp.type # "boolean" /\ resp.options = DigitOptions
    \/ truth = "true" /\ resp.correct_answer_index # 0
    \/ truth = "false" /\ resp.correct_answer_index # 1

\* C6: a failed attempt is not fatal: it uses exactly one unit of the budget,
\* leaves the accepted questions as they were, and the loop goes on to the
\* next attempt while budget remains.
C6_FailedAttemptNonFatal ==
    [][(Attempt /\ FailedAnswer(response', TargetTruth)) =>
          /\ attempts' = attempts + 1
          /\ batch_questions' = batch_questions
          /\ gpc' = gpc
          /\ attempts' < target_count * 6 => (ENABLED Attempt)']_vars

\* a truth mismatch after an accepted question, the budget not used up
C6_Witness ==
    /\ gpc = "loop_boolean"
    /\ response = Json(TRUE, GoodStem, "boolean", BooleanOptions, TRUE, 0)
    /\ truth_schedule = <<"true", "false">>
    /\ Len(batch_questions) = 1
    /\ attempts = 3

\* C7: in a boolean batch the i-th accepted question has final
\* correct_answer_index 0 when truth_schedule[i] is 'true' and 1 when it is
\* 'false', whatever 'type' the answer declares.
C7_TruthScheduleConformance ==
    q_type = "boolean" =>
        \A i \in DOMAIN batch_questions :
            batch_questions[i].correct_answer_index
                = (IF truth_schedule[i] = "true" THEN 0 ELSE 1)

\* C8 as claimed: the schedule of n > 0 has length n, ceil(n/2) 'false' and
\* floor(n/2) 'true' values.
C8_ExtraItemFalse ==
    truth_schedule # <<>> =>
        /\ Len(truth_schedule) = num_boolean
        /\ Count(truth_schedule, "false") = (num_boolean + 1) \div 2
        /\ Count(truth_schedule, "true") = num_boolean \div 2

\* C8 as amended: the schedule of n > 0 has length n and max(1, floor(n/2))
\* 'false' values, the others 'true': the extra item of an odd n >= 3 is
\* 'true', and n = 1 gives one 'false'.
C8_ScheduleCounts ==
    truth_schedule # <<>> =>
        LET half == num_boolean \div 2
            falses == IF half >= 1 THEN half ELSE 1
        IN /\ Len(truth_schedule) = num_boolean
           /\ Count(truth_schedule, "false") = falses
           /\ Count(truth_schedule, "true") = num_boolean - falses
           /\ \A i \in DOMAIN truth_schedule :
                 truth_schedule[i] \in {"false", "true"}

\* the shuffled schedule of 3: one 'false', two 'true'
C8_Witness ==
    /\ num_boolean = 3
    /\ truth_schedule = <<"true", "false", "true">>

\* C9: shuffle round trip: the option at the final correct_answer_index of an
\* accepted question is the option text that was at the parsed index before
\* the shuffle, also among duplicate option texts.
C9_ShuffleRoundTrip ==
    (batch_questions # <<>> /\ correct_opt # "none") =>
        LET q == Last(batch_questions)
        IN /\ q.correct_answer_index \in 0..(Len(q.options) - 1)
           /\ q.options[q.correct_answer_index + 1] = correct_opt

\* a choice question with duplicate options, shuffled so that the correct
\* text moved from index 0 to index 1
C9_Witness ==
    /\ q_type = "choice"
    /\ batch_questions # <<>>
    /\ Last(batch_questions).type = "choice"
    /\ Last(batch_questions).options = <<"b", "a", "a", "a">>
    /\ Last(batch_questions).correct_answer_index = 1
    /\ response.correct_answer_index = 0
    /\ correct_opt = "a"

\* C10: every question returned has exactly 4 options if it is a choice
\* question, exactly the boolean option pair if it is a boolean question,
\* and 0 <= correct_answer_index < len(options).
C10_GeneratedQuestionInvariant ==
    gpc = "done" =>
        \A i \in DOMAIN questions :
            LET q == questions[i]
            IN /\ q.type = "choice" => Len(q.options) = 4
               /\ q.type = "boolean" => q.options = BooleanOptions
               /\ q.correct_answer_index \in 0..(Len(q.options) - 1)

\* the quality gates on a question of a batch requested as type
PassedGates(q, type) ==
    /\ q.question.len >= 8
    /\ ~q.question.banned
    /\ type = "choice" =>
          Cardinality({i \in DOMAIN q.options : IsDigits(q.options[i])}) <= 2

\* C25: every question the generation loop accepted has a stem of at least 8
\* characters with no blacklisted term, and, if it was requested as a choice
\* question, at most 2 purely numeric options, whatever type the response
\* declares.
C25_AcceptedPassedGates ==
    /\ \A i \in DOMAIN batch_questions :
          PassedGates(batch_questions[i], q_type)
    /\ \A i \in DOMAIN choice_qs : PassedGates(choice_qs[i], "choice")

----------------------------------------------------------------------------
(* Texts.  A text is a sequence of characters; a word the code looks for as  *)
(* a whole ("shenme" for the interrogative, "jieshi" for 'explain', ...) is  *)
(* one character of the model.                                             *)

\* the newline is the character "nl"
IsSpace(c) == c \in {" ", "nl"}

LowerChar(c) ==
    CASE c = "X" -> "x"
      [] c = "A" -> "a"
      [] c = "B" -> "b"
      [] c = "C" -> "c"
      [] c = "D" -> "d"
      [] OTHER -> c

\* str.lower()
lower(s) == [i \in 1..Len(s) |-> LowerChar(s[i])]

SetMin(S) == CHOOSE x \in S : \A y \in S : x <= y
SetMax(S) == CHOOSE x \in S : \A y \in S : x >= y

\* str.strip()
strip(s) ==
    LET I == {i \in 1..Len(s) : ~IsSpace(s[i])}
    IN IF I = {} THEN <<>> ELSE SubSeq(s, SetMin(I), SetMax(I))

\* t in s
Contains(s, t) ==
    \E i \in 0..(Len(s) - Len(t)) : \A j \in 1..Len(t) : s[i + j] = t[j]

\* s.startswith(p)
startswith(s, p) == Len(p) <= Len(s) /\ SubSeq(s, 1, Len(p)) = p

\* set(s.split())
SplitSet(s) ==
    {SubSeq(s, i, j) : <<i, j>> \in
        {ij \in (1..Len(s)) \X (1..Len(s)) :
            /\ ij[1] <= ij[2]
            /\ \A m \in ij[1]..ij[2] : ~IsSpace(s[m])
            /\ ij[1] = 1 \/ IsSpace(s[ij[1] - 1])
            /\ ij[2] = Len(s) \/ IsSpace(s[ij[2] + 1])}}

\* the elements of seq at the indices I, in the order of seq
Pick(seq, I) ==
    [r \in 1..Cardinality(I) |->
        seq[CHOOSE i \in I : Cardinality({j \in I : j < i}) = r - 1]]

\* list[:n] for n >= 0
Take(list, n) == SubSeq(list, 1, IF n < Len(list) THEN n ELSE Len(list))

\* all sequences over S of length at most n
SeqsUpTo(S, n) == UNION {[1..m -> S] : m \in 0..n}

----------------------------------------------------------------------------
(* rag_service.py *)

MaxK == 2
MaxRetrieved == 2

Document(content, meta) == [page_content |-> content, metadata |-> meta]

\* the chunks of the index: two with the same text from different pages, one
\* with that text after a blank, another text, and a blank chunk
IndexDocs ==
    {Document(<<"x">>, "p1"), Document(<<"x">>, "p2"),
     Document(<<" ", "x">>, "p3"), Document(<<"y">>, "p4"),
     Document(<<" ">>, "p5")}

\* what the dense and the sparse retriever return for a query, one after
\* the other (retrieve lines 65-70)
RawLists == SeqsUpTo(IndexDocs, MaxRetrieved)

\* EnsembleRetriever.retrieve lines 72-77
retrieve(raw, self_k) ==
    LET key(d) == strip(d.page_content)
        unique == {i \in 1..Len(raw) :
                     /\ key(raw[i]) # <<>>
                     /\ \A j \in 1..(i - 1) : key(raw[j]) # key(raw[i])}
    IN Take(Pick(raw, unique), self_k)

\* hashlib.md5(content.encode()).hexdigest(): equal for equal contents only
md5(content) == <<"md5", content>>

\* generate_queries lines 84 and 90: the prefixes and keywords tested for
InterrogativePrefixes == {"shenme", "ruhe", "weishenme", "qingwen", "nengfou", "zenme"}
domain_keywords == {"jiqixuexi", "shenduxuexi", "shenjingwangluo", "suanfa"}

WhatIs(q) == <<"shenme", "shi">> \o q
PleaseExplain(q) == <<"qing", "jieshi">> \o q
InDeepLearning(q) == <<"shenduxuexi", "zhongde">> \o q

\* a faulty variant of generate_queries: the variants are not cut to
\* num_queries + 1
generate_queries_uncut(original_query, n) ==
    LET q1 == <<original_query>>
        q2 == IF \E pre \in InterrogativePrefixes :
                    startswith(original_query, <<pre>>)
              THEN q1 ELSE Append(q1, WhatIs(original_query))
        q3 == IF Contains(original_query, <<"jieshi">>)
                 \/ Contains(original_query, <<"jieshao">>)
              THEN q2 ELSE Append(q2, PleaseExplain(original_query))
    IN Append(q3, InDeepLearning(original_query))

\* rag_service.generate_queries
generate_queries(original_query, n) ==
    LET q1 == <<original_query>>
        q2 == IF \E pre \in InterrogativePrefixes :
                    startswith(original_query, <<pre>>)
              THEN q1 ELSE Append(q1, WhatIs(original_query))
        q3 == IF Contains(original_query, <<"jieshi">>)
                 \/ Contains(original_query, <<"jieshao">>)
              THEN q2 ELSE Append(q2, PleaseExplain(original_query))
        has_domain == \E kw \in domain_keywords :
                          Contains(original_query, <<kw>>)
        q4 == IF ~has_domain /\ Len(q3) < n + 1
              THEN Append(q3, InDeepLearning(original_query)) ELSE q3
    IN Take(q4, n + 1)

\* module_rag_assistant.generate_queries
assistant_generate_queries(original_query, n) ==
    LET q1 == <<original_query>>
        q2 == IF ~(\E pre \in InterrogativePrefixes :
                      startswith(original_query, <<pre>>))
              THEN Append(q1, WhatIs(original_query)) ELSE q1
        q3 == IF ~Contains(original_query, <<"jieshi">>)
                 /\ ~Contains(original_query, <<"jieshao">>)
              THEN Append(q2, PleaseExplain(original_query)) ELSE q2
        has_domain == \E kw \in domain_keywords :
                          Contains(original_query, <<kw>>)
        q4 == IF ~has_domain /\ Len(q3) < n + 1
              THEN Append(q3, InDeepLearning(original_query)) ELSE q3
    IN Take(q4, n + 1)

\* smart_context_selection lines 103-111, in thousandths:
\* keyword_score * 2 + min(len / 1000, 2.0) + 1.0
total_score(doc, q) ==
    LET query_terms == SplitSet(lower(q))
        content_lower == lower(doc.page_content)
        keyword_score ==
            Cardinality({term \in query_terms : Contains(content_lower, term)})
        length_score == IF Len(doc.page_content) < 2000
                        THEN Len(doc.page_content) ELSE 2000
    IN keyword_score * 2000 + length_score + 1000

\* a faulty variant of Ranked: candidates of equal score in reverse order
RankedUnstable(list, q) ==
    LET score == [i \in 1..Len(list) |-> total_score(list[i], q)]
        before(i, j) ==
            \/ score[i] > score[j]
            \/ score[i] = score[j] /\ i > j
    IN [r \in 1..Len(list) |->
          list[CHOOSE i \in 1..Len(list) :
                  Cardinality({j \in 1..Len(list) : before(j, i)}) = r - 1]]

\* smart_context_selection line 114: scored_docs.sort(reverse=True, key=score),
\* a stable sort
Ranked(list, q) ==
    LET score == [i \in 1..Len(list) |-> total_score(list[i], q)]
        before(i, j) ==
            \/ score[i] > score[j]
            \/ score[i] = score[j] /\ i < j
    IN [r \in 1..Len(list) |->
          list[CHOOSE i \in 1..Len(list) :
                  Cardinality({j \in 1..Len(list) : before(j, i)}) = r - 1]]

\* smart_context_selection
smart_context_selection(list, q, max_docs) ==
    IF Len(list) <= max_docs THEN list
    ELSE Take(Ranked(list, q), max_docs)

\* the queries retrieve_with_enhancements is called with
RagQueries ==
    {<<"x">>, <<"shenme", "x">>, <<"shenme", "jieshi">>, <<"shenme", "jieshi", "suanfa">>}

\* a call of RAGService.retrieve_with_enhancements, on a service made with
\* RAGService(k = MaxK)
InitRag ==
    /\ InitBPVars
    /\ GenOff
    /\ rpc = "start"
    /\ query \in RagQueries
    /\ num_queries = 2
    /\ k \in 1..MaxK
    /\ queries = <<>>
    /\ qi = 0
    /\ docs = <<>>
    /\ pool = <<>>
    /\ seen_content = {}
    /\ final_docs = <<>>
    /\ CoreIdle
    /\ EvalIdle
    /\ KeyIdle
    /\ HistIdle
    /\ LateIdle

\* retrieve_with_enhancements lines 195-198
RagStart ==
    /\ rpc = "start"
    /\ \E enable_expansion \in BOOLEAN :
          queries' = IF enable_expansion
                     THEN generate_queries(query, num_queries)
                     ELSE <<query>>
    /\ rpc' = "loop"
    /\ UNCHANGED <<query, num_queries, k, qi, docs, pool, seen_content,
                   final_docs, notRag>>

\* retrieve_with_enhancements lines 199-205: one query variant
RagRetrieve ==
    /\ rpc = "loop"
    /\ qi < Len(queries)
    /\ \E raw \in RawLists :
          LET found == retrieve(raw, MaxK)
              fresh == {i \in 1..Len(found) :
                          /\ md5(found[i].page_content) \notin seen_content
                          /\ \A j \in 1..(i - 1) :
                                md5(found[j].page_content)
                                    # md5(found[i].page_content)}
          IN /\ docs' = found
             /\ pool' = pool \o Pick(found, fresh)
             /\ seen_content' = seen_content \cup
                    {md5(found[i].page_content) : i \in 1..Len(found)}
    /\ qi' = qi + 1
    /\ UNCHANGED <<rpc, query, num_queries, k, queries, final_docs, notRag>>

\* retrieve_with_enhancements line 207
RagSelect ==
    /\ rpc = "loop"
    /\ qi = Len(queries)
    /\ final_docs' = smart_context_selection(pool, query, k)
    /\ rpc' = "done"
    /\ UNCHANGED <<query, num_queries, k, queries, qi, docs, pool,
                   seen_content, notRag>>

NextRag == RagStart \/ RagRetrieve \/ RagSelect

SpecRag == InitRag /\ [][NextRag]_vars

\* C11: the pool keeps one copy per normalized content, the first one seen:
\* a retrieved chunk enters the pool exactly when no chunk with the same
\* stripped content is in the pool or earlier in the same result, and joins
\* at the end.
C11_DedupNormalized ==
    [][qi' = qi + 1 =>
          LET norm(d) == strip(d.page_content)
              first == {i \in 1..Len(docs') :
                          /\ \A m \in 1..Len(pool) :
                                norm(pool[m]) # norm(docs'[i])
                          /\ \A j \in 1..(i - 1) :
                                norm(docs'[j]) # norm(docs'[i])}
          IN pool' = pool \o Pick(docs', first)]_vars

----------------------------------------------------------------------------
(* generate_queries called alone *)

MaxQueryLen == 2
MaxNumQueries == 3

QueryChars == {"shenme", "ruhe", "jieshi", "jieshao", "suanfa", "x"}

InitQueries ==
    /\ InitBPVars
    /\ GenOff
    /\ rpc = "generate_queries"
    /\ query \in SeqsUpTo(QueryChars, MaxQueryLen)
    /\ num_queries \in 0..MaxNumQueries
    /\ k = 0
    /\ queries = <<>>
    /\ qi = 0
    /\ docs = <<>>
    /\ pool = <<>>
    /\ seen_content = {}
    /\ final_docs = <<>>
    /\ CoreIdle
    /\ EvalIdle
    /\ KeyIdle
    /\ HistIdle
    /\ LateIdle

\* rag_service.generate_queries(query, num_queries)
GenerateQueries ==
    /\ rpc = "generate_queries"
    /\ queries' = generate_queries(query, num_queries)
    /\ rpc' = "generated"
    /\ UNCHANGED <<query, num_queries, k, qi, docs, pool, seen_content,
                   final_docs, notRag>>

\* module_rag_assistant.generate_queries(query, num_queries)
AssistantGenerateQueries ==
    /\ rpc = "generate_queries"
    /\ queries' = assistant_generate_queries(query, num_queries)
    /\ rpc' = "generated"
    /\ UNCHANGED <<query, num_queries, k, qi, docs, pool, seen_content,
                   final_docs, notRag>>

NextQueries == GenerateQueries \/ AssistantGenerateQueries

SpecQueries == InitQueries /\ [][NextQueries]_vars

\* C12: generate_queries returns at most num_queries + 1 variants, the first
\* the original query unchanged; the 'what is' variant is among them only if
\* the query has no interrogative prefix, the 'please explain' variant only
\* if it has no explanatory wording.
C12_QueryExpansionBounded ==
    rpc = "generated" =>
        LET variants == {queries[i] : i \in 1..Len(queries)}
        IN /\ Len(queries) <= num_queries + 1
           /\ Len(queries) >= 1
           /\ queries[1] = query
           /\ WhatIs(query) \in variants =>
                 ~(\E pre \in InterrogativePrefixes :
                      Len(query) > 0 /\ query[1] = pre)
           /\ PleaseExplain(query) \in variants =>
                 /\ \A i \in 1..Len(query) : query[i] # "jieshi"
                 /\ \A i \in 1..Len(query) : query[i] # "jieshao"

\* a query without prefix whose 'please explain' variant is cut off
C12_Witness ==
    /\ rpc = "generated"
    /\ query = <<"x">>
    /\ num_queries = 1
    /\ queries = <<query, WhatIs(query)>>

----------------------------------------------------------------------------
(* smart_context_selection called alone *)

MaxPool == 3

\* a text of n characters c
Rep(c, n) == [i \in 1..n |-> c]

\* candidate chunks: short and long ones, with and without the query term,
\* two of them past the length at which the length score stops growing
Candidates ==
    {Document(<<"x">>, "p1"),
     Document(<<"X", " ", "y">>, "p2"),
     Document(<<"y">>, "p3"),
     Document(<<"z">>, "p4"),
     Document(<<"x">> \o Rep("y", 1999), "p5"),
     Document(<<"x">> \o Rep("y", 2000), "p6")}

InitSelect ==
    /\ InitBPVars
    /\ GenOff
    /\ rpc = "select"
    /\ query = <<"X", " ", "x">>
    /\ num_queries = 0
    /\ k \in 0..MaxK
    /\ queries = <<>>
    /\ qi = 0
    /\ docs = <<>>
    /\ pool \in SeqsUpTo(Candidates, MaxPool)
    /\ seen_content = {}
    /\ final_docs = <<>>
    /\ CoreIdle
    /\ EvalIdle
    /\ KeyIdle
    /\ HistIdle
    /\ LateIdle

\* smart_context_selection(pool, query, max_docs = k)
Select ==
    /\ rpc = "select"
    /\ final_docs' = smart_context_selection(pool, query, k)
    /\ rpc' = "selected"
    /\ UNCHANGED <<query, num_queries, k, queries, qi, docs, pool,
                   seen_content, notRag>>

NextSelect == Select

SpecSelect == InitSelect /\ [][NextSelect]_vars

\* the score of the claim, in thousandths:
\* 2 x matched query terms + min(len / 1000, 2.0) + 1.0
ClaimedScore(doc) ==
    LET matched == {t \in {<<"x">>} :
                       \E i \in 1..Len(doc.page_content) :
                           doc.page_content[i] \in {"x", "X"}}
        len == Len(doc.page_content)
    IN 2000 * Cardinality(matched) + (IF len < 2000 THEN len ELSE 2000) + 1000

\* C13: a pool of at most max_docs chunks is returned unchanged; of a larger
\* one exactly max_docs chunks are returned, in descending score order, equal
\* scores in discovery order, and no chunk left out scores higher than one
\* returned.
C13_ContextRanker ==
    rpc = "selected" =>
        IF Len(pool) <= k THEN final_docs = pool
        ELSE LET score == [i \in 1..Len(pool) |-> ClaimedScore(pool[i])]
             IN /\ Len(final_docs) = k
                /\ \E f \in [1..k -> 1..Len(pool)] :
                      /\ \A r \in 1..k : final_docs[r] = pool[f[r]]
                      /\ \A r, t \in 1..k : r < t =>
                            \/ score[f[r]] > score[f[t]]
                            \/ score[f[r]] = score[f[t]] /\ f[r] < f[t]
                      /\ \A i \in 1..Len(pool) :
                            (\A r \in 1..k : f[r] # i) =>
                                \A r \in 1..k : score[i] <= score[f[r]]

\* the two best chunks have equal scores, both past the length at which the
\* length score stops growing, and were found after a worse one
C13_Witness ==
    /\ rpc = "selected"
    /\ k = 2
    /\ pool = <<Document(<<"y">>, "p3"), Document(<<"x">> \o Rep("y", 2000), "p6"),
                Document(<<"x">> \o Rep("y", 1999), "p5")>>
    /\ final_docs = <<pool[2], pool[3]>>

----------------------------------------------------------------------------
(* core_processing.py *)

MaxChunks == 3
MinChunkLen == 100

\* a chunk or page: its text and the metadata the code reads or writes.
\* "[[" is the opening bracket of a theorem or proof heading, "qed" the end
\* of a proof.
Chunk(content, page_type) ==
    [page_content |-> content,
     metadata |-> [page_type |-> page_type, is_special_page |-> FALSE,
                   source |-> "none"]]

\* should_merge_with_next lines 267, 270 and 277: the last characters that
\* ask for a merge
MergeTails == {"=", "+", "-", "*", "/", ",", ";", "(", "["}

\* should_merge_with_next
should_merge_with_next(current_content, next_content) ==
    LET cur == strip(current_content)
    IN \/ Len(cur) > 0 /\ cur[Len(cur)] \in MergeTails
       \/ /\ Contains(current_content, <<"[[", "proof">>)
          /\ ~Contains(current_content, <<"qed">>)
          /\ ~startswith(strip(next_content), <<"[[">>)

\* a faulty variant of TooShort: one character less is let through
TooShortLax(content) == Len(content) < MinChunkLen - 1

\* post_process_chunks line 241
TooShort(content) == Len(content) < MinChunkLen

\* a faulty variant of BothContent: the page types are not looked at
AnyPageType(page_type, next_page_type) == TRUE

\* post_process_chunks lines 250 and 254: both chunks are content
BothContent(page_type, next_page_type) ==
    page_type = "content" /\ next_page_type = "content"

\* post_process_chunks lines 232-260, from chunk i on
RECURSIVE post_process_from(_, _, _, _)
post_process_from(list, i, skip_next, processed) ==
    IF i > Len(list) THEN processed
    ELSE IF skip_next THEN post_process_from(list, i + 1, FALSE, processed)
    ELSE
      LET current_chunk == list[i]
          content == strip(current_chunk.page_content)
          page_type == current_chunk.metadata.page_type
          marked == IF page_type # "content"
                    THEN [current_chunk EXCEPT !.metadata.is_special_page = TRUE]
                    ELSE current_chunk
          merge == /\ i < Len(list)
                   /\ BothContent(page_type, list[i + 1].metadata.page_type)
                   /\ should_merge_with_next(content, list[i + 1].page_content)
          out == IF merge
                 THEN [marked EXCEPT !.page_content =
                          content \o <<"nl">> \o list[i + 1].page_content]
                 ELSE marked
      IN IF TooShort(content)
         THEN post_process_from(list, i + 1, FALSE, processed)
         ELSE post_process_from(list, i + 1, merge, Append(processed, out))

\* post_process_chunks
post_process_chunks(list) == post_process_from(list, 1, FALSE, <<>>)

\* the chunks post_process_chunks is called with: long enough, one short,
\* short once stripped, ending in a comma, an open proof, a heading, a
\* fragment, and a page of the table of contents
ChunkInputs ==
    {Chunk(Rep("a", 100), "content"),
     Chunk(Rep("a", 99), "content"),
     Chunk(<<" ">> \o Rep("a", 99), "content"),
     Chunk(Rep("a", 99) \o <<",">>, "content"),
     Chunk(<<"[[", "proof">> \o Rep("a", 98), "content"),
     Chunk(<<"[[">> \o Rep("a", 99), "content"),
     Chunk(<<"a">>, "content"),
     Chunk(Rep("a", 99) \o <<",">>, "toc")}

InitChunks ==
    /\ InitBPVars
    /\ GenOff
    /\ RagIdle
    /\ cpc = "post_process"
    /\ documents = <<>>
    /\ all_chunks \in SeqsUpTo(ChunkInputs, MaxChunks)
    /\ processed_chunks = <<>>
    /\ EvalIdle
    /\ KeyIdle
    /\ HistIdle
    /\ LateIdle

\* post_process_chunks(all_chunks)
PostProcessChunks ==
    /\ cpc = "post_process"
    /\ processed_chunks' = post_process_chunks(all_chunks)
    /\ cpc' = "processed"
    /\ UNCHANGED <<documents, all_chunks, notCore>>

NextChunks == PostProcessChunks

SpecChunks == InitChunks /\ [][NextChunks]_vars

\* the chunks with their place in the list as source
Tagged(list) ==
    [i \in 1..Len(list) |-> [list[i] EXCEPT !.metadata.source = i]]

InitMerge ==
    /\ InitBPVars
    /\ GenOff
    /\ RagIdle
    /\ cpc = "post_process"
    /\ documents = <<>>
    /\ \E list \in SeqsUpTo(ChunkInputs, MaxChunks) : all_chunks = Tagged(list)
    /\ processed_chunks = <<>>
    /\ EvalIdle
    /\ KeyIdle
    /\ HistIdle
    /\ LateIdle

SpecMerge == InitMerge /\ [][NextChunks]_vars

\* C14: every chunk post_process_chunks returns has a content of at least
\* 100 characters, merged chunks and chunks after a merged or dropped chunk
\* included.
C14_MinChunkLength ==
    cpc = "processed" =>
        \A i \in 1..Len(processed_chunks) :
            Len(processed_chunks[i].page_content) >= 100

\* a chunk that is dropped, then a chunk that takes in the fragment after it
C14_Witness ==
    /\ cpc = "processed"
    /\ all_chunks = <<Chunk(<<" ">> \o Rep("a", 99), "content"),
                      Chunk(Rep("a", 99) \o <<",">>, "content"),
                      Chunk(<<"a">>, "content")>>
    /\ Len(processed_chunks) = 1
    /\ Len(processed_chunks[1].page_content) = 102

\* output chunk o is input chunk i as it was
EmittedAlone(o, i) == o.page_content = all_chunks[i].page_content

\* output chunk o is input chunk i merged with the chunk after it, both
\* content and should_merge_with_next holding for chunk i
MergedWithNext(o, i) ==
    /\ i < Len(all_chunks)
    /\ all_chunks[i].metadata.page_type = "content"
    /\ all_chunks[i + 1].metadata.page_type = "content"
    /\ should_merge_with_next(strip(all_chunks[i].page_content),
                              all_chunks[i + 1].page_content)
    /\ o.page_content = strip(all_chunks[i].page_content) \o <<"nl">>
                            \o all_chunks[i + 1].page_content

\* C23: every output chunk is one input chunk, alone or merged with the chunk
\* immediately after it, both of them content and should_merge_with_next
\* holding for the first; a chunk consumed by a merge is not emitted or merged
\* again, and a non-content chunk is never part of a merge.
C23_MergeOneLookahead ==
    cpc = "processed" =>
        LET n == Len(processed_chunks)
            src(j) == processed_chunks[j].metadata.source
        IN /\ \A j \in 1..n :
                 /\ src(j) \in 1..Len(all_chunks)
                 /\ \/ EmittedAlone(processed_chunks[j], src(j))
                    \/ MergedWithNext(processed_chunks[j], src(j))
           /\ \A j \in 1..(n - 1) :
                 /\ src(j) < src(j + 1)
                 /\ MergedWithNext(processed_chunks[j], src(j))
                        => src(j) + 1 < src(j + 1)

\* a merge of two chunks, the second of which asks for a merge too, then the
\* third chunk on its own
C23_Witness ==
    /\ cpc = "processed"
    /\ Len(all_chunks) = 3
    /\ Len(processed_chunks) = 2
    /\ MergedWithNext(processed_chunks[1], 1)
    /\ should_merge_with_next(strip(all_chunks[2].page_content),
                              all_chunks[3].page_content)
    /\ processed_chunks[2].metadata.source = 3
    /\ EmittedAlone(processed_chunks[2], 3)

----------------------------------------------------------------------------
(* quiz_module/evaluator.py *)

MaxQuiz == 2

\* a submitted answer: a text, or None
Answer(text) == [is_none |-> FALSE, text |-> text]
NoneAnswer == [is_none |-> TRUE, text |-> <<>>]

\* a question as grade_quiz reads it; correct_answer_index counts from 0
Question(options, correct_answer_index) ==
    [options |-> options, correct_answer_index |-> correct_answer_index]

\* options ["A", "B", "C", "D"] with correct index 2, and options with
\* letter prefixes
QuizQuestions ==
    {Question(<<<<"A">>, <<"B">>, <<"C">>, <<"D">>>>, 2),
     Question(<<<<"A", ".", " ", "x">>, <<"B", ".", " ", "y">>>>, 0)}

\* None, "", "C", "c. C", "C. C", " C ", "x", "B. y", "q"
UserAnswers ==
    {NoneAnswer, Answer(<<>>), Answer(<<"C">>),
     Answer(<<"c", ".", " ", "C">>), Answer(<<"C", ".", " ", "C">>),
     Answer(<<" ", "C", " ">>), Answer(<<"x">>),
     Answer(<<"B", ".", " ", "y">>), Answer(<<"q">>)}

\* text without its first n characters
Drop(text, n) == SubSeq(text, n + 1, Len(text))

\* _clean_option_text: re.sub(r'^[A-D]\.\s*', '', option), then strip()
_clean_option_text(option) ==
    LET has_prefix == /\ Len(option) >= 2
                      /\ option[1] \in {"A", "B", "C", "D"}
                      /\ option[2] = "."
        rest == Drop(option, 2)
        blanks == IF \A i \in 1..Len(rest) : IsSpace(rest[i]) THEN Len(rest)
                  ELSE SetMin({i \in 1..Len(rest) : ~IsSpace(rest[i])}) - 1
    IN strip(IF has_prefix THEN Drop(rest, blanks) ELSE option)

\* the first position, counted from 0, at which hits is TRUE, or -1
FirstIndex(hits) ==
    IF \E i \in 1..Len(hits) : hits[i]
    THEN SetMin({i \in 1..Len(hits) : hits[i]}) - 1
    ELSE -1

\* grade_quiz lines 40-67: the index a user answer resolves to, -1 if none
Resolve(q, user_ans) ==
    IF user_ans.is_none \/ user_ans.text = <<>> THEN -1
    ELSE LET exact == FirstIndex([i \in 1..Len(q.options) |->
                                     q.options[i] = user_ans.text])
             cleaned_user_ans == _clean_option_text(user_ans.text)
         IN IF exact # -1 THEN exact
            ELSE FirstIndex([i \in 1..Len(q.options) |->
                     _clean_option_text(q.options[i]) = cleaned_user_ans])

\* calculate_score lines 106-130: the result entry of question i (from 0)
ResultEntry(i, question, user_answer_index) ==
    [question_index |-> i,
     options |-> question.options,
     user_answer |-> user_answer_index,
     correct_answer |-> question.correct_answer_index,
     is_correct |-> user_answer_index = question.correct_answer_index
                        /\ user_answer_index # -1,
     is_unanswered |-> user_answer_index = -1]

\* calculate_score, with line 73 of grade_quiz
calculate_score(user_answers, list) ==
    LET results == [i \in 1..Len(list) |->
                       ResultEntry(i - 1, list[i], user_answers[i])]
        correct == Cardinality({i \in 1..Len(list) : results[i].is_correct})
        wrong == Cardinality({i \in 1..Len(list) :
                                ~results[i].is_correct
                                /\ user_answers[i] # -1})
    IN [raised |-> "none", total |-> Len(list), correct |-> correct,
        wrong |-> wrong,
        unanswered |-> Cardinality({i \in 1..Len(list) : user_answers[i] = -1}),
        results |-> results]

\* a faulty variant of LengthMismatch: the lengths are not compared
LengthUnchecked(list, answers) == FALSE

\* grade_quiz line 32
LengthMismatch(list, answers) == Len(list) # Len(answers)

\* a call of grade_quiz
InitGrade ==
    /\ InitBPVars
    /\ GenOff
    /\ RagIdle
    /\ CoreIdle
    /\ epc = "grade"
    /\ quiz_questions \in SeqsUpTo(QuizQuestions, MaxQuiz)
    /\ user_answers_list \in SeqsUpTo(UserAnswers, MaxQuiz)
    /\ user_answers_map = <<>>
    /\ report = NoReport
    /\ KeyIdle
    /\ HistIdle
    /\ LateIdle

\* grade_quiz lines 32-33: the lengths differ
GradeRejected ==
    /\ epc = "grade"
    /\ LengthMismatch(quiz_questions, user_answers_list)
    /\ report' = [NoReport EXCEPT !.raised = "ValueError"]
    /\ epc' = "raised"
    /\ UNCHANGED <<quiz_questions, user_answers_list, user_answers_map,
                   notEval>>

\* grade_quiz lines 36-75, the lengths having passed line 32; an answer
\* missing for a question raises IndexError at line 40
Grade ==
    /\ epc = "grade"
    /\ ~LengthMismatch(quiz_questions, user_answers_list)
    /\ LET n == IF Len(user_answers_list) < Len(quiz_questions)
                THEN Len(user_answers_list) ELSE Len(quiz_questions)
           resolved == [i \in 1..n |->
                           Resolve(quiz_questions[i], user_answers_list[i])]
       IN /\ user_answers_map' = resolved
          /\ IF n < Len(quiz_questions)
             THEN /\ report' = [NoReport EXCEPT !.raised = "IndexError"]
                  /\ epc' = "raised"
             ELSE /\ report' = calculate_score(resolved, quiz_questions)
                  /\ epc' = "graded"
    /\ UNCHANGED <<quiz_questions, user_answers_list, notEval>>

NextGrade == GradeRejected \/ Grade

SpecGrade == InitGrade /\ [][NextGrade]_vars

\* the prefix stripping of the claim: a leading letter and dot, in either
\* case, and the blanks around the text
ClaimedClean(text) ==
    LET has_prefix == /\ Len(text) >= 2
                      /\ text[1] \in {"A", "B", "C", "D", "a", "b", "c", "d"}
                      /\ text[2] = "."
    IN strip(IF has_prefix THEN Drop(text, 2) ELSE text)

\* the resolution of the claim: exact match, then match after prefix
\* stripping, else unanswered (-1)
ClaimedResolve(q, user_ans) ==
    IF user_ans.is_none \/ user_ans.text = <<>> THEN -1
    ELSE IF \E i \in 1..Len(q.options) : q.options[i] = user_ans.text
    THEN SetMin({i \in 1..Len(q.options) : q.options[i] = user_ans.text}) - 1
    ELSE IF \E i \in 1..Len(q.options) :
                ClaimedClean(q.options[i]) = ClaimedClean(user_ans.text)
    THEN SetMin({i \in 1..Len(q.options) :
                    ClaimedClean(q.options[i]) = ClaimedClean(user_ans.text)}) - 1
    ELSE -1

\* C15: grade_quiz resolves each answer by exact match, then by match after
\* stripping a letter-dot prefix and trimming, else as unanswered; with
\* options A, B, C, D and correct index 2 the answers "C" and "c. C" are
\* correct and the empty answer is unanswered and not correct.
C15_GraderResolution ==
    epc = "graded" =>
        \A i \in 1..Len(quiz_questions) :
            LET idx == ClaimedResolve(quiz_questions[i], user_answers_list[i])
                r == report.results[i]
            IN /\ r.user_answer = idx
               /\ r.is_correct =
                      (idx = quiz_questions[i].correct_answer_index /\ idx # -1)
               /\ r.is_unanswered = (idx = -1)

\* C16: when the question list and the answer list differ in length,
\* grade_quiz fails with an input error before any answer is resolved or
\* scored, and returns no result.
C16_LengthMismatchRejected ==
    (epc # "grade" /\ Len(quiz_questions) # Len(user_answers_list)) =>
        /\ epc = "raised"
        /\ report.raised = "ValueError"
        /\ user_answers_map = <<>>
        /\ report.results = <<>>

\* two questions and one answer were rejected
C16_Witness ==
    /\ epc = "raised"
    /\ Len(quiz_questions) = 2
    /\ Len(user_answers_list) = 1
    /\ report.raised = "ValueError"

----------------------------------------------------------------------------
(* learning_tracker.py: derive_concept_key *)

SnippetLen == 160

\* a question instance as derive_concept_key reads it.  A field that is
\* missing, None or empty is the empty text: the code tests all of them with
\* 'or' alone.
Instance(concept_key, source, concept_snippet, snippet, stem) ==
    [concept_key |-> concept_key, source |-> source, chapter_id |-> <<"c">>,
     page |-> <<"1">>, concept_snippet |-> concept_snippet,
     snippet |-> snippet, stem |-> stem, question |-> stem]

\* x or y
Or(x, y) == IF x # <<>> THEN x ELSE y

\* re.sub(r"\s+", " ", text)
CollapseSpace(text) ==
    LET marked == [i \in 1..Len(text) |->
                      [c |-> IF IsSpace(text[i]) THEN " " ELSE text[i],
                       dup |-> i > 1 /\ IsSpace(text[i]) /\ IsSpace(text[i - 1])]]
        kept == SelectSeq(marked, LAMBDA m : ~m.dup)
    IN [i \in 1..Len(kept) |-> kept[i].c]

\* derive_concept_key line 40
snippet_norm(snippet) == Take(lower(strip(CollapseSpace(snippet))), SnippetLen)

\* derive_concept_key; "|".join(parts) is the tuple of the parts
derive_concept_key(question) ==
    IF question.concept_key # <<>> THEN <<question.concept_key>>
    ELSE LET source == Or(question.source, <<"unknown_source">>)
             chapter == Or(question.chapter_id, <<>>)
             page == Or(question.page, <<>>)
             snippet == Or(question.concept_snippet,
                           Or(question.snippet,
                              Or(question.stem, Or(question.question, <<>>))))
             norm == snippet_norm(snippet)
         IN <<source, chapter, page,
              IF norm = <<>> THEN <<"no_snippet">> ELSE norm>>

\* the values of the fields
SnippetTexts ==
    {<<>>, <<" ">>, <<"A", " ", " ", "b">>, <<"a", " ", "b">>,
     Rep("a", 160) \o <<"b">>, Rep("a", 160) \o <<"c">>}

Instances ==
    {Instance(ck, src, cs, sn, st) :
        ck \in {<<>>, <<"k">>}, src \in {<<>>, <<"s">>},
        cs \in {<<>>, <<"e">>}, sn \in SnippetTexts,
        st \in {<<"p">>, <<"q">>}}

\* a question as generate_quiz_questions returns it: of the fields read
\* here it has the stem ("question") only
GeneratorQuestion(stem) ==
    [Instance(<<>>, <<>>, <<>>, <<>>, <<>>) EXCEPT
        !.chapter_id = <<>>, !.page = <<>>, !.question = stem]

\* keys are derived for two instances, given as they are or as questions
\* the generator returned
InitKeys ==
    /\ InitBPVars
    /\ GenOff
    /\ RagIdle
    /\ CoreIdle
    /\ EvalIdle
    /\ \/ kpc = "derive" /\ instances \in Instances \X Instances
       \/ /\ kpc = "api_generate_quiz"
          /\ instances \in {<<GeneratorQuestion(<<"p">>), GeneratorQuestion(st)>> :
                               st \in {<<"p">>, <<"P", " ">>, <<"q">>}}
    /\ concept_keys = <<>>
    /\ HistIdle
    /\ LateIdle

\* derive_concept_key(item) for each instance
DeriveKeys ==
    /\ kpc = "derive"
    /\ concept_keys' = [i \in 1..2 |-> derive_concept_key(instances[i])]
    /\ kpc' = "derived"
    /\ UNCHANGED <<instances, notKey>>

\* main_app.api_generate_quiz lines 583-600, for each raw question
ApiGenerateQuiz ==
    /\ kpc = "api_generate_quiz"
    /\ LET item(q) ==
               LET stem == Or(q.stem, Or(q.question, <<>>))
               IN [q EXCEPT !.stem = stem, !.question = stem,
                            !.concept_snippet = <<>>]
       IN /\ instances' = [i \in 1..2 |-> item(instances[i])]
          /\ concept_keys' = [i \in 1..2 |-> derive_concept_key(item(instances[i]))]
    /\ kpc' = "derived"
    /\ UNCHANGED notKey

NextKeys == DeriveKeys \/ ApiGenerateQuiz

SpecKeys == InitKeys /\ [][NextKeys]_vars

\* the first 160 normalized characters of a snippet, as the claim has them
ClaimedPrefix(snippet) ==
    LET norm == lower(strip(CollapseSpace(snippet)))
    IN SubSeq(norm, 1, IF Len(norm) < 160 THEN Len(norm) ELSE 160)

\* C17: two question instances with the same source, chapter_id, page and
\* first 160 normalized snippet characters get the same concept_key, also
\* when their stems differ and also when the keys are built for questions
\* the generator returned.
C17_ConceptKeyStable ==
    kpc = "derived" =>
        LET a == instances[1]
            b == instances[2]
        IN (/\ a.source = b.source
            /\ a.chapter_id = b.chapter_id
            /\ a.page = b.page
            /\ ClaimedPrefix(a.snippet) = ClaimedPrefix(b.snippet))
           => concept_keys[1] = concept_keys[2]

----------------------------------------------------------------------------
(* learning_tracker.py: the quiz history *)

MAX_HISTORY == 200
MaxRecords == 3
MaxNow == 2

\* record_quiz_attempt lines 110-130: the entry, of which the model keeps the
\* attempt_id and the timestamp
Entry(attempt_id, timestamp) ==
    [attempt_id |-> attempt_id, timestamp |-> timestamp]

\* load_quiz_history line 64: history.sort(key=timestamp), a stable sort,
\* from timestamp t on
RECURSIVE SortedFrom(_, _)
SortedFrom(history, t) ==
    IF t > MaxNow THEN <<>>
    ELSE SelectSeq(history, LAMBDA e : e.timestamp = t)
             \o SortedFrom(history, t + 1)

\* load_quiz_history() with no limit
load_quiz_history == SortedFrom(history_file, 0)

\* list[-n:] for n > 0
LastN(list, n) ==
    IF Len(list) <= n THEN list ELSE SubSeq(list, Len(list) - n + 1, Len(list))

\* a history file left by n earlier calls, all at clock reading 1
Recorded(n) == [i \in 1..n |-> Entry(i, 1)]

\* the history is empty, or one or no entry short of MAX_HISTORY
InitCounts == {0, MAX_HISTORY - 1, MAX_HISTORY}

InitHistory ==
    /\ InitBPVars
    /\ GenOff
    /\ RagIdle
    /\ CoreIdle
    /\ EvalIdle
    /\ KeyIdle
    /\ attempt_count \in InitCounts
    /\ history_file = Recorded(attempt_count)
    /\ entry = NoEntry
    /\ LateIdle

\* record_quiz_attempt, with datetime.now() reading now
RecordQuizAttempt ==
    /\ \E n \in InitCounts :
          n <= attempt_count /\ attempt_count < n + MaxRecords
    /\ \E now \in 0..MaxNow :
          LET history == load_quiz_history
              new == Entry(attempt_count + 1, now)
          IN /\ history_file' = LastN(Append(history, new), MAX_HISTORY)
             /\ entry' = new
    /\ attempt_count' = attempt_count + 1
    /\ UNCHANGED notHist

NextHistory == RecordQuizAttempt

SpecHistory == InitHistory /\ [][NextHistory]_vars

\* C18: the stored history has at most MAX_HISTORY entries and contains the
\* attempt just recorded; it holds the most recent attempts, none evicted
\* before the bound is exceeded and none before a newer one.
C18_HistoryBounded ==
    LET n == Len(history_file)
    IN /\ n <= 200
       /\ n = IF attempt_count < 200 THEN attempt_count ELSE 200
       /\ entry # NoEntry =>
             /\ n > 0
             /\ history_file[n] = entry
             /\ entry.attempt_id = attempt_count
       /\ {history_file[i].attempt_id : i \in 1..n}
             = (attempt_count - n + 1)..attempt_count

----------------------------------------------------------------------------
(* core_processing.py: process_single_pdf *)

MaxPages == 3
chunk_size == 1000

\* a page the loader returns: its text and what the detectors find in it.
\* features holds "toc", "glossary", "reference" for the detector that
\* answers True, and "raises" when classifying or cleaning the page raises an
\* exception.
Page(content, features) ==
    [page_content |-> content, features |-> features]

\* clean_document_content lines 91-103
page_type_of(doc) ==
    IF "toc" \in doc.features THEN "table_of_contents"
    ELSE IF "glossary" \in doc.features THEN "glossary"
    ELSE IF "reference" \in doc.features THEN "reference"
    ELSE "content"

\* the characters of line 122
Operators == {"=", "<", ">"}

\* re.sub(r'\n{3,}', '\n\n', text), line 116
CollapseNewlines(text) ==
    LET marked == [i \in 1..Len(text) |->
                      [c |-> text[i],
                       dup |-> /\ i > 2
                               /\ text[i] = "nl"
                               /\ text[i - 1] = "nl"
                               /\ text[i - 2] = "nl"]]
        kept == SelectSeq(marked, LAMBDA m : ~m.dup)
    IN [i \in 1..Len(kept) |-> kept[i].c]

\* re.sub(r'([=...<>])', r' \1 ', text), line 122: every character with a
\* place before and after it, taken by a blank when it is an operator
SpaceOperators(text) ==
    LET places == [j \in 1..(3 * Len(text)) |->
                      LET i == (j + 2) \div 3
                          r == (j - 1) % 3
                      IN [c |-> IF r = 1 THEN text[i] ELSE " ",
                          keep |-> r = 1 \/ text[i] \in Operators]]
        kept == SelectSeq(places, LAMBDA m : m.keep)
    IN [i \in 1..Len(kept) |-> kept[i].c]

\* re.sub(r' {2,}', ' ', text), line 124
CollapseBlanks(text) ==
    LET marked == [i \in 1..Len(text) |->
                      [c |-> text[i],
                       dup |-> i > 1 /\ text[i] = " " /\ text[i - 1] = " "]]
        kept == SelectSeq(marked, LAMBDA m : ~m.dup)
    IN [i \in 1..Len(kept) |-> kept[i].c]

\* the words of line 110, each one character of the model
TheoremWords == {"theorem", "lemma", "proof", "corollary", "proposition"}

\* a character of the range 一-鿿: a theorem word, "formula", or
\* "han", any other Chinese character
IsCJK(c) == c \in TheoremWords \cup {"formula", "han"}

\* the character at place i, "eof" past the end
CharAt(text, i) == IF i \in 1..Len(text) THEN text[i] ELSE "eof"

\* the first place from i on that holds no whitespace, Len(text) + 1 if none
NextNonSpace(text, i) ==
    LET J == {j \in i..Len(text) : ~IsSpace(text[j])}
    IN IF J = {} THEN Len(text) + 1 ELSE SetMin(J)

\* the first place before i, going back, that holds no whitespace, 0 if none
PrevNonSpace(text, i) ==
    LET J == {j \in 1..i : ~IsSpace(text[j])}
    IN IF J = {} THEN 0 ELSE SetMax(J)

\* parts joined, each part of at most width characters
Flatten(parts, width) ==
    LET places == [j \in 1..(width * Len(parts)) |->
                      LET i == (j - 1) \div width + 1
                          r == ((j - 1) % width) + 1
                      IN [c |-> IF r <= Len(parts[i]) THEN parts[i][r] ELSE " ",
                          keep |-> r <= Len(parts[i])]]
        kept == SelectSeq(places, LAMBDA m : m.keep)
    IN [i \in 1..Len(kept) |-> kept[i].c]

\* re.sub(r'(?<=[CJK])\s+(?=[CJK])', '', text), line 106: whitespace between
\* two Chinese characters goes
RemoveCJKSpace(text) ==
    LET marked == [i \in 1..Len(text) |->
                      [c |-> text[i],
                       drop |-> /\ IsSpace(text[i])
                                /\ IsCJK(CharAt(text, PrevNonSpace(text, i)))
                                /\ IsCJK(CharAt(text, NextNonSpace(text, i)))]]
        kept == SelectSeq(marked, LAMBDA m : ~m.drop)
    IN [i \in 1..Len(kept) |-> kept[i].c]

\* line 109: where the match of \(\s*(\d+\.\d+)\s*\) that begins at place i
\* ends, 0 if there is none. "num" is a decimal number, one character of the
\* model.
FormulaEnd(text, i) ==
    LET j == NextNonSpace(text, i + 1)
        e == NextNonSpace(text, j + 1)
    IN IF text[i] = "(" /\ CharAt(text, j) = "num" /\ CharAt(text, e) = ")"
       THEN e ELSE 0

\* re.sub(r'\(\s*(\d+\.\d+)\s*\)', r'[[formula\1]]', text), line 109
MarkFormulas(text) ==
    LET Starts == {m \in 1..Len(text) : text[m] = "(" /\ FormulaEnd(text, m) > 0}
    IN Flatten([i \in 1..Len(text) |->
                   IF i \in Starts THEN <<"[[", "formula", "num", "]]">>
                   ELSE IF \E m \in Starts : m < i /\ i <= FormulaEnd(text, m)
                   THEN <<>>
                   ELSE <<text[i]>>], 4)

\* lines 110-111: whether a match of
\* (?<![.\s])(theorem word)\s*(\d+\.\d+)?(?!\s*\.) begins at place i
TheoremAt(text, i) ==
    /\ text[i] \in TheoremWords
    /\ i = 1 \/ (text[i - 1] # "." /\ ~IsSpace(text[i - 1]))
    /\ CharAt(text, NextNonSpace(text, i + 1)) # "."

\* whether the match at place i takes in a number: one follows, and no dot
\* follows the number
TheoremNumbered(text, i) ==
    LET j == NextNonSpace(text, i + 1)
    IN /\ CharAt(text, j) = "num"
       /\ CharAt(text, NextNonSpace(text, j + 1)) # "."

\* where the match at place i ends: the whitespace after the word is taken
\* in, and the number if any
TheoremEnd(text, i) ==
    LET j == NextNonSpace(text, i + 1)
    IN IF TheoremNumbered(text, i) THEN j ELSE j - 1

\* re.sub of lines 110-111: the word and its number are set in brackets on a
\* line of their own
MarkTheorems(text) ==
    LET Starts == {m \in 1..Len(text) :
                      text[m] \in TheoremWords /\ TheoremAt(text, m)}
    IN Flatten([i \in 1..Len(text) |->
                   IF i \in Starts
                   THEN <<"nl", "nl", "[[", text[i]>>
                            \o (IF TheoremNumbered(text, i) THEN <<"num">> ELSE <<>>)
                            \o <<"]]", "nl">>
                   ELSE IF \E m \in Starts : m < i /\ i <= TheoremEnd(text, m)
                   THEN <<>>
                   ELSE <<text[i]>>], 7)

\* clean_document_content lines 105-128 on one page. The texts of the model
\* hold no digit other than in "num", no OCR token and no chapter line, and
\* those of a table of contents no bracketed heading, so the other
\* substitutions leave them as they are.
clean_text(text, page_type) ==
    LET t1 == RemoveCJKSpace(text)
        t2 == IF page_type = "content" THEN MarkTheorems(MarkFormulas(t1))
              ELSE t1
        a == CollapseNewlines(t2)
        b == IF page_type = "content" THEN SpaceOperators(a) ELSE a
    IN strip(CollapseBlanks(b))

\* clean_document_content on one page: the page as it is kept
clean_page(doc) ==
    Chunk(clean_text(doc.page_content, page_type_of(doc)), page_type_of(doc))

\* clean_document_content: the pages longer than 100 characters are kept
clean_document_content(docs_in) ==
    SelectSeq([i \in 1..Len(docs_in) |-> clean_page(docs_in[i])],
              LAMBDA d : Len(d.page_content) > 100)

\* split_text_into_chunks: a page of at most chunk_size characters is one
\* chunk, which carries the page's metadata; then post_process_chunks
split_text_into_chunks(docs_in) == post_process_chunks(docs_in)

\* process_single_pdf lines 39-42
with_source(list, source_name) ==
    [i \in 1..Len(list) |-> [list[i] EXCEPT !.metadata.source = source_name]]

\* process_single_pdf lines 25-44 when nothing raises
chunks_of(docs_in, source_name) ==
    with_source(split_text_into_chunks(clean_document_content(docs_in)),
                source_name)

\* process_single_pdf: an exception raised on any page leaves the try block
\* (lines 46-48)
process_single_pdf(docs_in, source_name) ==
    IF \E i \in 1..Len(docs_in) : "raises" \in docs_in[i].features
    THEN <<>>
    ELSE chunks_of(docs_in, source_name)

\* the pages of a document: one long enough, one with an operator and runs
\* of blanks and newlines, one too short, one of the table of contents, one
\* on which classification or cleaning raises
PageInputs ==
    {Page(Rep("a", 101), {}),
     Page(<<" ", "a", "=", "b", " ", " ", "nl", "nl", "nl">> \o Rep("a", 98), {}),
     Page(Rep("a", 100), {}),
     Page(Rep("a", 101), {"toc", "reference"}),
     Page(Rep("a", 101), {"raises"})}

InitPdf ==
    /\ InitBPVars
    /\ GenOff
    /\ RagIdle
    /\ cpc = "pdf"
    /\ documents \in SeqsUpTo(PageInputs, MaxPages)
    /\ all_chunks = <<>>
    /\ processed_chunks = <<>>
    /\ EvalIdle
    /\ KeyIdle
    /\ HistIdle
    /\ LateIdle

\* process_single_pdf(pdf_path, "f.pdf") on the loaded pages
ProcessSinglePdf ==
    /\ cpc = "pdf"
    /\ processed_chunks' = process_single_pdf(documents, "f.pdf")
    /\ cpc' = "returned"
    /\ UNCHANGED <<documents, all_chunks, notCore>>

NextPdf == ProcessSinglePdf

SpecPdf == InitPdf /\ [][NextPdf]_vars

\* the pages on which nothing raises
Remaining(docs_in) ==
    SelectSeq(docs_in, LAMBDA d : "raises" \notin d.features)

\* C20: a page on which classification or cleaning fails is skipped, and
\* process_single_pdf returns the chunks of the remaining pages.
C20_PageFailureSkipped ==
    cpc = "returned" =>
        processed_chunks = chunks_of(Remaining(documents), "f.pdf")

----------------------------------------------------------------------------
(* core_indexing.py, main_app.py: api_upload, and the pool of
   generate_quiz_questions *)

MaxIngests == 1
MaxIngestPages == 2
MaxSamples == 2
MAX_SEQ_LENGTH == 512

\* filter_chunks
filter_chunks(list) ==
    SelectSeq(list, LAMBDA chunk : chunk.metadata.page_type = "content")

\* truncate_long_chunks: "..." is three characters
truncate_long_chunks(list) ==
    LET max_chars == MAX_SEQ_LENGTH * 2
    IN [i \in 1..Len(list) |->
           IF Len(list[i].page_content) > max_chars
           THEN [list[i] EXCEPT !.page_content =
                    SubSeq(list[i].page_content, 1, max_chars)
                        \o <<".", ".", ".">>]
           ELSE list[i]]

\* build_session_vector_db lines 56-62: what the build writes to the index
build_session_vector_db(list) == truncate_long_chunks(filter_chunks(list))

\* the words of meta_patterns that the texts of the model hold, each one
\* character of the model: "mulu" the table of contents, "suoyin" the index,
\* "cankaowenxian" the references, "banquan" the copyright
MetaWords == {"mulu", "suoyin", "cankaowenxian", "banquan"}

Digits == {"0", "1", "2", "3", "4", "5", "6", "7", "8", "9"}

\* _is_valid_content_chunk
_is_valid_content_chunk(content) ==
    LET hit_count == Cardinality({w \in MetaWords : Contains(content, <<w>>)})
        digit_count == Cardinality({i \in 1..Len(content) : content[i] \in Digits})
    IN IF Len(strip(content)) < 30 THEN FALSE
       ELSE IF hit_count >= 2 THEN FALSE
       ELSE IF digit_count * 100 > 15 * Len(content) THEN FALSE
       ELSE IF Len(content) < 150 THEN FALSE
       ELSE TRUE

\* generate_quiz_questions lines 291-299, from document i on
RECURSIVE unique_valid_from(_, _, _, _)
unique_valid_from(list, i, seen, unique_docs) ==
    IF i > Len(list) THEN unique_docs
    ELSE IF list[i].page_content \in seen
    THEN unique_valid_from(list, i + 1, seen, unique_docs)
    ELSE unique_valid_from(list, i + 1, seen \cup {list[i].page_content},
             IF _is_valid_content_chunk(list[i].page_content)
             THEN Append(unique_docs, list[i]) ELSE unique_docs)

\* the pages of an uploaded document: content pages long and short, pages of
\* the table of contents with one meta word and with two, a page of
\* references, a page of an index full of digits
IngestPages ==
    {Page(Rep("a", 150), {}),
     Page(Rep("b", 120), {}),
     Page(<<"mulu">> \o Rep("c", 150), {"toc"}),
     Page(<<"mulu", "suoyin">> \o Rep("d", 150), {"toc"}),
     Page(Rep("e", 150), {"reference"}),
     Page(Rep("7", 40) \o Rep("f", 120), {"glossary"})}

InitIndex ==
    /\ InitBPVars
    /\ GenOff
    /\ RagIdle
    /\ CoreIdle
    /\ EvalIdle
    /\ KeyIdle
    /\ HistIdle
    /\ WritersIdle
    /\ ipc = "ingest"
    /\ vector_store = <<>>
    /\ valid_docs = <<>>
    /\ sampled = {}
    /\ VersionIdle

\* _process_task lines 132 and 160-165: the background build of a document
BackgroundBuild ==
    /\ ipc = "ingest"
    /\ Len(vector_store) < MaxIngests
    /\ \E pages \in SeqsUpTo(IngestPages, MaxIngestPages) :
          vector_store' = vector_store \o
              build_session_vector_db(process_single_pdf(pages, "built.pdf"))
    /\ UNCHANGED <<ipc, valid_docs, sampled, bpVars, genVars, ragVars,
                   coreVars, evalVars, keyVars, histVars, wrVars, verVars>>

\* api_upload lines 491-500: the chunks are added to the vector store
ApiUpload ==
    /\ ipc = "ingest"
    /\ Len(vector_store) < MaxIngests
    /\ \E pages \in SeqsUpTo(IngestPages, MaxIngestPages) :
          LET chunks == process_single_pdf(pages, "uploaded.pdf")
          IN vector_store' = IF Len(chunks) > 0 THEN vector_store \o chunks
                             ELSE vector_store
    /\ UNCHANGED <<ipc, valid_docs, sampled, bpVars, genVars, ragVars,
                   coreVars, evalVars, keyVars, histVars, wrVars, verVars>>

\* generate_quiz_questions lines 275-299: the retriever returns the chunks of
\* the store (it holds no more than the k = 8 a query returns)
BuildPool ==
    /\ ipc = "ingest"
    /\ valid_docs' = unique_valid_from(vector_store, 1, {}, <<>>)
    /\ ipc' = IF valid_docs' = <<>> THEN "returned" ELSE "generate"
    /\ UNCHANGED <<vector_store, sampled, bpVars, genVars, ragVars,
                   coreVars, evalVars, keyVars, histVars, wrVars, verVars>>

\* _generate_batch line 322: doc = random.choice(all_docs)
Sample ==
    /\ ipc = "generate"
    /\ Cardinality(sampled) < MaxSamples
    /\ \E i \in 1..Len(valid_docs) : sampled' = sampled \cup {valid_docs[i]}
    /\ UNCHANGED <<ipc, vector_store, valid_docs, bpVars, genVars, ragVars,
                   coreVars, evalVars, keyVars, histVars, wrVars, verVars>>

NextIndex ==
    \/ BackgroundBuild
    \/ ApiUpload
    \/ BuildPool
    \/ Sample

SpecIndex == InitIndex /\ [][NextIndex]_vars

\* C21: no chunk whose page_type is toc, glossary or reference is sampled by
\* the question-generation loop, whether the background build or the direct
\* upload wrote it to the index.
C21_NonContentNotSampled ==
    \A doc \in sampled : doc.metadata.page_type = "content"

----------------------------------------------------------------------------
(* core_processing.py: clean_document_content run on its own output *)

MaxCleanPages == 2

\* pages to clean: plain text, a comparison, a formula reference, a numbered
\* theorem, a theorem word after a blank, a proof, blanks between Chinese
\* characters, and a page of the table of contents that names a theorem
CleanPages ==
    {Page(Rep("a", 101), {}),
     Page(<<"a", "=", "b", "<", "c">> \o Rep("a", 101), {}),
     Page(<<"(", " ", "num", ")">> \o Rep("a", 101), {}),
     Page(<<"han", "theorem", " ", "num", " ">> \o Rep("a", 101), {}),
     Page(<<"a", " ", "theorem", " ">> \o Rep("a", 101), {}),
     Page(<<"han", "proof", "han">> \o Rep("a", 101), {}),
     Page(<<"han", " ", " ", "han", "nl", "nl", "nl">> \o Rep("a", 101), {}),
     Page(<<"han", "theorem", " ", "num", " ">> \o Rep("a", 101), {"toc"})}

\* what the detectors find in a cleaned page: what they found before (the
\* dot leaders, index entries and citations they count stay in place)
FeaturesOf(chunk) ==
    IF chunk.metadata.page_type = "table_of_contents" THEN {"toc"}
    ELSE IF chunk.metadata.page_type = "glossary" THEN {"glossary"}
    ELSE IF chunk.metadata.page_type = "reference" THEN {"reference"}
    ELSE {}

\* the cleaned pages as documents
AsPages(list) ==
    [i \in 1..Len(list) |-> Page(list[i].page_content, FeaturesOf(list[i]))]

InitClean ==
    /\ InitBPVars
    /\ GenOff
    /\ RagIdle
    /\ cpc = "clean"
    /\ documents \in SeqsUpTo(CleanPages, MaxCleanPages)
    /\ all_chunks = <<>>
    /\ processed_chunks = <<>>
    /\ EvalIdle
    /\ KeyIdle
    /\ HistIdle
    /\ LateIdle

\* clean_document_content(documents)
CleanOnce ==
    /\ cpc = "clean"
    /\ all_chunks' = clean_document_content(documents)
    /\ cpc' = "cleaned"
    /\ UNCHANGED <<documents, processed_chunks, notCore>>

\* clean_document_content on the pages it returned
CleanAgain ==
    /\ cpc = "cleaned"
    /\ processed_chunks' = clean_document_content(AsPages(all_chunks))
    /\ cpc' = "recleaned"
    /\ UNCHANGED <<documents, all_chunks, notCore>>

NextClean ==
    \/ CleanOnce
    \/ CleanAgain

SpecClean == InitClean /\ [][NextClean]_vars

\* C22: clean_document_content run on its own output gives the same pages,
\* text and page type, also for content pages with theorem or proof words,
\* formula references or comparison operators.
C22_CleanIdempotent ==
    cpc = "recleaned" => processed_chunks = all_chunks

\* ------------------------------------------------------------------------
\* core_processing.py: the page detectors
\*
\* A page is the sequence of its lines, and a line is one character of its
\* kind:
\*   "dots4"    a leader of four or more dots and a page number
\*              ("Chapter 1 ..... 5"): one match of dots_pattern, none of
\*              toc_pattern, which wants exactly three dots after the title
\*   "dots3"    a title, three dots and a page number ("Intro...5"): one
\*              match of toc_pattern, none of dots_pattern
\*   "entry"    an index entry with four page numbers ("han 12, 15, 18, 20")
\*   "wordnum"  two Latin words and a number ("gradient descent 12")
\*   "cite"     a line of a bibliography ("[1] A")
\*   "plain"    a line that matches none of the patterns

LineKinds == {"dots4", "dots3", "entry", "wordnum", "cite", "plain"}

\* len(re.findall(pattern, text)) for the pattern that matches the lines of
\* one kind
findall(kind, text) == Len(SelectSeq(text, LAMBDA line : line = kind))

\* is_table_of_contents with the thresholds at 5 matches
is_table_of_contents_from_5(text) ==
    \/ findall("dots4", text) >= 5
    \/ findall("dots3", text) >= 5

\* is_table_of_contents
is_table_of_contents(text) ==
    \/ findall("dots4", text) > 5
    \/ findall("dots3", text) > 5

\* is_glossary_or_index
is_glossary_or_index(text) ==
    \/ findall("entry", text) > 10
    \/ findall("wordnum", text) > 15

\* is_reference_page: matches counts the lines, match_ratio = matches / lines
is_reference_page(text) ==
    LET matches == findall("cite", text)
        lines == IF text = <<>> THEN 1 ELSE Len(text)
    IN \/ matches > 5
       \/ 10 * matches > 3 * lines /\ lines > 5

\* the detectors that match a page: what clean_document_content tests at
\* lines 93, 96 and 99
Detected(text) ==
    (IF is_table_of_contents(text) THEN {"toc"} ELSE {})
    \cup (IF is_glossary_or_index(text) THEN {"glossary"} ELSE {})
    \cup (IF is_reference_page(text) THEN {"reference"} ELSE {})

\* a page with the given number of lines of each kind
LinesOf(counts) ==
    Rep("dots4", counts.dots4) \o Rep("dots3", counts.dots3)
    \o Rep("entry", counts.entry) \o Rep("wordnum", counts.wordnum)
    \o Rep("cite", counts.cite) \o Rep("plain", counts.plain)

\* the pages classified: counts at and around every threshold
ClassifyPages ==
    {LinesOf([dots4 |-> a, dots3 |-> b, entry |-> c, wordnum |-> d,
              cite |-> e, plain |-> f]) :
        a \in {0, 3, 5, 6}, b \in {0, 3, 5, 6}, c \in {0, 10, 11},
        d \in {0, 15, 16}, e \in {0, 2, 5, 6}, f \in {0, 1, 4, 20}}

InitClassify ==
    /\ InitBPVars
    /\ GenOff
    /\ RagIdle
    /\ cpc = "classify"
    /\ \E text \in ClassifyPages :
          documents = <<[page_content |-> text,
                         metadata |-> [page_type |-> "none"]]>>
    /\ all_chunks = <<>>
    /\ processed_chunks = <<>>
    /\ EvalIdle
    /\ KeyIdle
    /\ HistIdle
    /\ LateIdle

\* clean_document_content lines 89-103: the page type is written into the
\* page's metadata
ClassifyPage ==
    /\ cpc = "classify"
    /\ LET text == documents[1].page_content
       IN documents' =
             <<[documents[1] EXCEPT !.metadata.page_type =
                   page_type_of(Page(text, Detected(text)))]>>
    /\ cpc' = "classified"
    /\ UNCHANGED <<all_chunks, processed_chunks, notCore>>

NextClassify ==
    \/ ClassifyPage

SpecClassify == InitClassify /\ [][NextClassify]_vars

\* C24: a page with 6 or more matches of one of the two toc patterns is a
\* table of contents whatever else matches, a page with at most 5 of both is
\* not; it is a glossary exactly when it is no table of contents and the
\* glossary rule matches, a reference page exactly when neither of those and
\* the reference rule matches, and content exactly when no rule matches.
C24_ClassificationPrecedence ==
    cpc = "classified" =>
        LET text == documents[1].page_content
            page_type == documents[1].metadata.page_type
            toc == \/ findall("dots4", text) >= 6
                   \/ findall("dots3", text) >= 6
            glossary == is_glossary_or_index(text)
            reference == is_reference_page(text)
        IN /\ page_type = "table_of_contents" <=> toc
           /\ page_type = "glossary" <=> ~toc /\ glossary
           /\ page_type = "reference" <=> ~toc /\ ~glossary /\ reference
           /\ page_type = "content" <=> ~toc /\ ~glossary /\ ~reference

\* a page with 6 leaders of four dots, on which the glossary and the
\* reference rule match too, is a table of contents
C24_Witness ==
    /\ cpc = "classified"
    /\ findall("dots4", documents[1].page_content) = 6
    /\ is_glossary_or_index(documents[1].page_content)
    /\ is_reference_page(documents[1].page_content)
    /\ documents[1].metadata.page_type = "table_of_contents"

----------------------------------------------------------------------------
(* version_manager.py: the version registry *)

MaxVersions == 3

VersionSessions == {"s1", "s2"}
DbPaths == {"p1", "p2"}

\* what the version registry leaves alone
notVer == <<bpVars, genVars, ragVars, coreVars, evalVars, keyVars, histVars,
            wrVars, idxVars>>

\* register_version lines 58-68: the entry, of which the model keeps the
\* fields the functions of the module read or write. version_id is the
\* number of the uuid4 drawn, no two alike.
VersionEntry(version_id, session_id, db_path, created_at) ==
    [version_id |-> version_id, session_id |-> session_id,
     db_path |-> db_path, created_at |-> created_at,
     last_used_at |-> created_at]

\* load_versions lines 33-37: sorted(data, key=created_at, reverse=True), a
\* stable sort, from created_at t down
RECURSIVE NewestFirstFrom(_, _)
NewestFirstFrom(data, t) ==
    IF t < 0 THEN <<>>
    ELSE SelectSeq(data, LAMBDA v : v.created_at = t)
             \o NewestFirstFrom(data, t - 1)

\* load_versions() on a file written by _save_versions
load_versions(file) == NewestFirstFrom(file, MaxNow)

\* the entries of another session only
other_session(v, session_id, db_path) == v.session_id # session_id

\* register_version lines 71-74: the test of the list comprehension
other_version(v, session_id, db_path) ==
    v.session_id # session_id /\ v.db_path # db_path

\* register_version lines 70-75: what is saved
registered(versions, new) ==
    <<new>> \o SelectSeq(versions,
                  LAMBDA v : other_version(v, new.session_id, new.db_path))

\* mark_version_used lines 90-96: the first entry with the id gets the time
marked(versions, version_id, now) ==
    [i \in DOMAIN versions |->
        IF /\ versions[i].version_id = version_id
           /\ \A j \in 1..(i - 1) : versions[j].version_id # version_id
        THEN [versions[i] EXCEPT !.last_used_at = now]
        ELSE versions[i]]

\* remove_version line 104
removed(versions, version_id) ==
    SelectSeq(versions, LAMBDA v : v.version_id # version_id)

Call(op, version_id, session_id, db_path, now) ==
    [op |-> op, version_id |-> version_id, session_id |-> session_id,
     db_path |-> db_path, now |-> now]

\* the registry does not exist yet
InitVersions ==
    /\ InitBPVars
    /\ GenOff
    /\ RagIdle
    /\ CoreIdle
    /\ EvalIdle
    /\ KeyIdle
    /\ HistIdle
    /\ WritersIdle
    /\ IndexIdle
    /\ versions_file = <<>>
    /\ version_count = 0
    /\ vop = NoCall

\* register_version, with datetime.now() reading now
RegisterVersion ==
    /\ version_count < MaxVersions
    /\ \E session_id \in VersionSessions, db_path \in DbPaths, now \in 0..MaxNow :
          LET new == VersionEntry(version_count + 1, session_id, db_path, now)
          IN /\ versions_file' = registered(load_versions(versions_file), new)
             /\ vop' = Call("register", new.version_id, session_id, db_path, now)
    /\ version_count' = version_count + 1
    /\ UNCHANGED notVer

\* mark_version_used with an id that was drawn or was not
MarkVersionUsed ==
    /\ \E version_id \in 1..(MaxVersions + 1), now \in 0..MaxNow :
          LET versions == load_versions(versions_file)
              updated == \E i \in DOMAIN versions :
                             versions[i].version_id = version_id
          IN /\ versions_file' = IF updated
                                 THEN marked(versions, version_id, now)
                                 ELSE versions_file
             /\ vop' = Call("mark", version_id, "none", "none", now)
    /\ UNCHANGED <<version_count, notVer>>

\* remove_version with an id that was drawn or was not
RemoveVersion ==
    /\ \E version_id \in 1..(MaxVersions + 1) :
          LET versions == load_versions(versions_file)
              new_versions == removed(versions, version_id)
          IN /\ versions_file' = IF Len(new_versions) # Len(versions)
                                 THEN new_versions
                                 ELSE versions_file
             /\ vop' = Call("remove", version_id, "none", "none", 0)
    /\ UNCHANGED <<version_count, notVer>>

NextVersions ==
    \/ RegisterVersion
    \/ MarkVersionUsed
    \/ RemoveVersion

SpecVersions == InitVersions /\ [][NextVersions]_vars

\* the entries of a list that match a session_id or a db_path
Matching(versions, session_id, db_path) ==
    {i \in DOMAIN versions : \/ versions[i].session_id = session_id
                             \/ versions[i].db_path = db_path}

\* a version_id that no entry of the registry carries
Unknown(version_id) ==
    \A i \in DOMAIN versions_file : versions_file[i].version_id # version_id

\* C30: from an empty registry, after every call the registry holds at most
\* one entry per session_id and at most one per db_path; after
\* register_version the new entry is the only one with its session_id or its
\* db_path; mark_version_used changes nothing but last_used_at of the entry
\* with the id; mark_version_used and remove_version with an unknown id leave
\* the registry file as it was.
C30_RegistryInvariants ==
    [][/\ \A i \in DOMAIN versions_file' : \A j \in DOMAIN versions_file' :
             i # j => /\ versions_file'[i].session_id # versions_file'[j].session_id
                      /\ versions_file'[i].db_path # versions_file'[j].db_path
       /\ vop'.op = "register" =>
             \A i \in Matching(versions_file', vop'.session_id, vop'.db_path) :
                 /\ i = 1
                 /\ versions_file'[i] =
                       VersionEntry(vop'.version_id, vop'.session_id,
                                    vop'.db_path, vop'.now)
       /\ vop'.op = "register" =>
             Matching(versions_file', vop'.session_id, vop'.db_path) # {}
       /\ (vop'.op = "mark" /\ ~Unknown(vop'.version_id)) =>
             /\ Len(versions_file') = Len(versions_file)
             /\ \A i \in DOMAIN versions_file' :
                    LET old == load_versions(versions_file)[i]
                        new == load_versions(versions_file')[i]
                    IN IF old.version_id = vop'.version_id
                       THEN new = [old EXCEPT !.last_used_at = vop'.now]
                       ELSE new = old
       /\ (vop'.op \in {"mark", "remove"} /\ Unknown(vop'.version_id)) =>
             versions_file' = versions_file]_vars

\* after three registrations the registry holds two entries, and the last
\* call marked one of them at a time other than its creation
C30_Witness ==
    /\ vop.op = "mark"
    /\ version_count = MaxVersions
    /\ Len(versions_file) = 2
    /\ \E i \in DOMAIN versions_file :
          /\ versions_file[i].version_id = vop.version_id
          /\ versions_file[i].last_used_at # versions_file[i].created_at

----------------------------------------------------------------------------
(* learning_tracker.py and version_manager.py: two calls at a time *)

\* Two threads call record_quiz_attempt, or both call register_version. A
\* call loads the file, builds its list, and saves it: open(file, "w")
\* empties the file, and json.dump and the close write the text from the
\* start of the file. The steps of the two calls interleave freely.

Writers == {"w1", "w2"}

\* the length of the JSON text of an entry: the two calls may write entries
\* of different lengths, an entry already in the store has length 1
EntrySizes == {1, 2}

\* what the writers leave alone
notWriters == <<bpVars, genVars, ragVars, coreVars, evalVars, keyVars,
                attempt_count, entry, idxVars, version_count, vop>>

NotCalled(kind) ==
    [pc |-> "idle", kind |-> kind, entry |-> NoEntry, size |-> 0,
     list |-> <<>>]

\* the id a writer's entry gets: a uuid4, no two alike
WriterId(w) == IF w = "w1" THEN 11 ELSE 12

\* one quiz attempt, or one version of another session and path, stored
\* before the two calls, or none
InitStores ==
    /\ InitBPVars
    /\ GenOff
    /\ RagIdle
    /\ CoreIdle
    /\ EvalIdle
    /\ KeyIdle
    /\ attempt_count = 0
    /\ entry = NoEntry
    /\ IndexIdle
    /\ version_count = 0
    /\ vop = NoCall
    /\ \E kind \in {"quiz", "version"}, n \in {0, 1} :
          /\ writers = [w \in Writers |-> NotCalled(kind)]
          /\ history_file = IF kind = "quiz" THEN Recorded(n) ELSE <<>>
          /\ versions_file = IF kind = "version" /\ n = 1
                             THEN <<VersionEntry(1, "s0", "p0", 1)>>
                             ELSE <<>>
          /\ store_len = 1 + n
    /\ store_torn = FALSE
    /\ save_log = <<>>

\* the length of the text json.dump writes for a list: the brackets and the
\* entries
TextLen(list) ==
    LET SizeOf(e) == IF \E w \in Writers : writers[w].entry = e
                     THEN writers[CHOOSE w \in Writers : writers[w].entry = e].size
                     ELSE 1
        RECURSIVE Sum(_)
        Sum(i) == IF i = 0 THEN 0 ELSE SizeOf(list[i]) + Sum(i - 1)
    IN 1 + Sum(Len(list))

Event(w, step) == [writer |-> w, step |-> step]

\* record_quiz_attempt lines 78-128 or register_version lines 54-74: the
\* file is loaded (a torn file does not parse and loads as the empty list)
\* and the list to save is built
StoreLoad(w) ==
    /\ writers[w].pc = "idle"
    /\ \E now \in 0..MaxNow, size \in EntrySizes :
          IF writers[w].kind = "quiz"
          THEN LET history == IF store_torn THEN <<>> ELSE load_quiz_history
                   new == Entry(WriterId(w), now)
               IN writers' = [writers EXCEPT ![w] =
                     [pc |-> "loaded", kind |-> "quiz", entry |-> new,
                      size |-> size,
                      list |-> LastN(Append(history, new), MAX_HISTORY)]]
          ELSE \E session_id \in VersionSessions, db_path \in DbPaths :
                  LET versions == IF store_torn THEN <<>>
                                  ELSE load_versions(versions_file)
                      new == VersionEntry(WriterId(w), session_id, db_path, now)
                  IN writers' = [writers EXCEPT ![w] =
                        [pc |-> "loaded", kind |-> "version", entry |-> new,
                         size |-> size, list |-> registered(versions, new)]]
    /\ save_log' = Append(save_log, Event(w, "load"))
    /\ UNCHANGED <<history_file, versions_file, store_len, store_torn,
                   notWriters>>

\* _save_history line 72 or _save_versions line 43: open(file, "w") empties
\* the file
StoreOpen(w) ==
    /\ writers[w].pc = "loaded"
    /\ writers' = [writers EXCEPT ![w].pc = "opened"]
    /\ IF writers[w].kind = "quiz"
       THEN history_file' = <<>> /\ UNCHANGED versions_file
       ELSE versions_file' = <<>> /\ UNCHANGED history_file
    /\ store_len' = 0
    /\ store_torn' = FALSE
    /\ save_log' = Append(save_log, Event(w, "open"))
    /\ UNCHANGED notWriters

\* _save_history line 73 or _save_versions line 44: the text is
\* written from the start of the file. A longer text that another thread
\* wrote since the open keeps its end, and the file is torn.
StoreWrite(w) ==
    /\ writers[w].pc = "opened"
    /\ writers' = [writers EXCEPT ![w].pc = "done"]
    /\ IF writers[w].kind = "quiz"
       THEN history_file' = writers[w].list /\ UNCHANGED versions_file
       ELSE versions_file' = writers[w].list /\ UNCHANGED history_file
    /\ IF TextLen(writers[w].list) >= store_len
       THEN store_len' = TextLen(writers[w].list) /\ store_torn' = FALSE
       ELSE store_len' = store_len /\ store_torn' = TRUE
    /\ save_log' = Append(save_log, Event(w, "write"))
    /\ UNCHANGED notWriters

NextStores ==
    \/ \E w \in Writers : StoreLoad(w)
    \/ \E w \in Writers : StoreOpen(w)
    \/ \E w \in Writers : StoreWrite(w)

SpecStores == InitStores /\ [][NextStores]_vars

\* the position of an event in the log
At(w, step) == CHOOSE i \in DOMAIN save_log : save_log[i] = Event(w, step)

\* the list a reader of the store gets: nothing from a torn file
Stored ==
    IF store_torn THEN <<>>
    ELSE IF \A w \in Writers : writers[w].kind = "quiz" THEN history_file
    ELSE versions_file

Holds(list, e) == \E i \in DOMAIN list : list[i] = e

BothDone == \A w \in Writers : writers[w].pc = "done"

\* C26: the stores are last-writer-wins: when both calls load before either
\* saves, the stored list is the one of the call that wrote last, with its
\* entry and without the other's; when one call returns before the other
\* begins, both entries are stored.
C26_LastWriterWins ==
    BothDone =>
        \A a \in Writers : \A b \in Writers \ {a} :
            /\ (/\ At(a, "load") < At(b, "open")
                /\ At(b, "load") < At(a, "open")
                /\ At(a, "write") < At(b, "write")) =>
                  /\ Stored = writers[b].list
                  /\ Holds(Stored, writers[b].entry)
                  /\ ~Holds(Stored, writers[a].entry)
            /\ At(a, "write") < At(b, "load") =>
                  /\ Holds(Stored, writers[a].entry)
                  /\ Holds(Stored, writers[b].entry)

====
